---- MODULE Spec2Model ----
(***************************************************************************)
(* A model of the telemetry bridge core: the state store                   *)
(* (src/src/core/state/store.ts), the subscription manager                 *)
(* (src/src/core/router/subscription.ts), the message router               *)
(* (class MessageRouter, src/src/config/loader.ts lines 418-923), the      *)
(* client transport (src/src/transports/client/server.ts) and the          *)
(* Companion adapter (src/src/adapters/companion/adapter.ts).              *)
(*                                                                         *)
(* Strings of the program (paths, patterns) are TLA+ strings; Chars gives  *)
(* their characters where the code looks inside them.  Timestamps          *)
(* (updatedAt, createdAt, message.timestamp) and message ids that no       *)
(* modelled branch reads are left out of the records.                      *)
(***************************************************************************)
EXTENDS Integers, Sequences, FiniteSets, TLC

\* ------------------------------------------------------------------------
\* Bounds of the model
\* ------------------------------------------------------------------------
\* the state writes, subscribes, events and conflict errors routed in a run
\* of Spec, and the subscribes among them
MaxOps == 4
MaxSubscribes == 1
\* the same for a run of SpecFanOut
MaxFanOutOps == 3
MaxFanOutSubscribes == 1
\* the calls of one kind a run can hold
CallIds == 1..(MaxOps + MaxFanOutOps)
\* the commands a run of SpecCmd routes, and the ticks of its clock
MaxCommands == 2
MaxTime == 3
\* options.idempotencyTtl, the unit of the clock
IdempotencyTtl == 1
\* the ttl the commands carry, in the same unit
CommandTtl == 1
\* the sockets the adapter creates in a run of SpecAdapter, and the
\* operations routed beside it
MaxSockets == 2
MaxAdapterOps == 2
\* the commands a run of SpecDispatch routes
MaxDispatch == 1
\* the commands a run of SpecRoute routes
MaxRouted == 2
\* the store on its own: the calls made on it
MaxStoreOps == 3
\* the commands a run of SpecTargets routes
MaxTargetCommands == 1
\* the greatest config.maxReconnectAttempts a run of SpecAttempts is given
MaxAttemptsLimit == 1
\* the segments of the patterns and paths pathMatchesPattern is applied to
MaxSegments == 3
\* the messages the hub builds in a run of SpecSequence
MaxEmitted == 3
\* the commands the adapter's handler is called with in a run of SpecBridge
MaxBridgeCommands == 1
\* the connections that come in on the client transport in a run of
\* SpecTransport
MaxConnections == 3
\* config.maxClients of the client transport of the model
maxClients == 1

\* ------------------------------------------------------------------------
\* Small value sets the inputs are drawn from
\* ------------------------------------------------------------------------
Paths == {"x.y", "x.z"}
\* JavaScript values: a number, a string, null, or an object literal (rep is
\* its text with the keys in the order written)
Num(rep) == [kind |-> "number", rep |-> rep]
Str(rep) == [kind |-> "string", rep |-> rep]
Obj(rep) == [kind |-> "object", rep |-> rep]
NullValue == [kind |-> "null", rep |-> "null"]
Values == {Num("1"), Num("2")}
EventPaths == {"x.y"}
PatternLists == {<<"x.y">>, <<"x.z", "x.*">>}
Filters == {"state", "events"}
\* the namespaces messages come from (message.source) and that own entries
Sources == {"app.a", "app.b"}
IdempotencyKeys == {"K"}
CommandSources == {"app.a"}
CommandTargets == {"companion.satellite"}
AckStatuses == {"completed", "failed"}
HubSource == "hub.core"
\* undefined / null of the program
None == "none"
NullVersion == 0
\* the null previousVersion of the delta of a creation
NullPreviousVersion == -1

\* ------------------------------------------------------------------------
\* Strings as character sequences
\* ------------------------------------------------------------------------
Chars(s) ==
  CASE s = "x.y" -> <<"x", ".", "y">>
    [] s = "x.z" -> <<"x", ".", "z">>
    [] s = "x.*" -> <<"x", ".", "*">>
    [] s = "x.**" -> <<"x", ".", "*", "*">>
    [] s = "**" -> <<"*", "*">>
    [] s = "*" -> <<"*">>
    [] s = "x" -> <<"x">>
    [] s = "hub.subscriptions" ->
         <<"h", "u", "b", ".", "s", "u", "b", "s", "c", "r", "i", "p", "t",
           "i", "o", "n", "s">>
    [] s = "companion.**" ->
         <<"c", "o", "m", "p", "a", "n", "i", "o", "n", ".", "*", "*">>
    [] s = "companion.connection.state" ->
         <<"c", "o", "m", "p", "a", "n", "i", "o", "n", ".", "c", "o", "n",
           "n", "e", "c", "t", "i", "o", "n", ".", "s", "t", "a", "t", "e">>
    [] s = "companion.connection.lastConnected" ->
         <<"c", "o", "m", "p", "a", "n", "i", "o", "n", ".", "c", "o", "n",
           "n", "e", "c", "t", "i", "o", "n", ".", "l", "a", "s", "t", "C",
           "o", "n", "n", "e", "c", "t", "e", "d">>
    [] s = "companion.connection.lastError" ->
         <<"c", "o", "m", "p", "a", "n", "i", "o", "n", ".", "c", "o", "n",
           "n", "e", "c", "t", "i", "o", "n", ".", "l", "a", "s", "t", "E",
           "r", "r", "o", "r">>
    [] s = "companion.variables.v" ->
         <<"c", "o", "m", "p", "a", "n", "i", "o", "n", ".", "v", "a", "r",
           "i", "a", "b", "l", "e", "s", ".", "v">>

\* patternToRegex: `**` becomes `.*`, a remaining `*` becomes `[^.]+`, every
\* other character (the dot included, after escaping) matches itself.  The
\* regex is kept as its token list.
RECURSIVE patternTokens(_)
patternTokens(cs) ==
  IF cs = <<>> THEN <<>>
  ELSE IF Len(cs) >= 2 /\ cs[1] = "*" /\ cs[2] = "*"
       THEN <<[k |-> "dstar", c |-> ""]>> \o patternTokens(SubSeq(cs, 3, Len(cs)))
  ELSE IF cs[1] = "*"
       THEN <<[k |-> "star", c |-> ""]>> \o patternTokens(Tail(cs))
  ELSE <<[k |-> "lit", c |-> cs[1]]>> \o patternTokens(Tail(cs))

patternToRegex(pattern) == patternTokens(Chars(pattern))

\* RegExp.test for the anchored regex ^tokens$
RECURSIVE regexTest(_, _)
regexTest(toks, s) ==
  IF toks = <<>> THEN s = <<>>
  ELSE LET t == Head(toks)
           rest == Tail(toks)
       IN CASE t.k = "lit" ->
                 s # <<>> /\ Head(s) = t.c /\ regexTest(rest, Tail(s))
            [] t.k = "star" ->
                 \E n \in 1..Len(s) :
                   /\ \A i \in 1..n : s[i] # "."
                   /\ regexTest(rest, SubSeq(s, n + 1, Len(s)))
            [] t.k = "dstar" ->
                 \E n \in 0..Len(s) : regexTest(rest, SubSeq(s, n + 1, Len(s)))

pathMatchesPattern(path, pattern) == regexTest(patternToRegex(pattern), Chars(path))

\* ------------------------------------------------------------------------
\* State store (entries is the Map in insertion order)
\* ------------------------------------------------------------------------
RECURSIVE IndexOfPath(_, _)
IndexOfPath(es, path) ==
  IF es = <<>> THEN 0
  ELSE IF es[Len(es)].path = path /\ IndexOfPath(SubSeq(es, 1, Len(es) - 1), path) = 0
       THEN Len(es)
  ELSE IndexOfPath(SubSeq(es, 1, Len(es) - 1), path)

has(es, path) == IndexOfPath(es, path) # 0

get(es, path) == es[IndexOfPath(es, path)]

\* JSON.stringify: a string is quoted, a number, null or an object is
\* written as its text
Stringify(v) ==
  IF v.kind = "string" THEN <<"\"", v.rep, "\"">> ELSE <<v.rep>>

\* valueChanged: `===` holds of equal primitives (an object literal is a new
\* object each time), then the serialisations are compared
valueChanged(oldValue, newValue) ==
  IF oldValue.kind # "object" /\ oldValue = newValue THEN FALSE
  ELSE Stringify(oldValue) # Stringify(newValue)

\* Map.set: an existing key keeps its place, a new key goes last
MapSet(es, entry) ==
  IF has(es, entry.path)
  THEN [es EXCEPT ![IndexOfPath(es, entry.path)] = entry]
  ELSE Append(es, entry)

\* the ownership check of set
OwnershipViolatedMutant(es, path, owner) == FALSE
OwnershipViolated(es, path, owner) ==
  has(es, path) /\ get(es, path).owner # owner

\* the no-op check of set
SetIsNoOp(es, path, value) ==
  has(es, path) /\ ~valueChanged(get(es, path).value, value)

\* StateStore.set: what the call does to the store, and the delta it hands
\* to notifyListeners (outcome "applied"), or that it throws
\* StateOwnershipError (outcome "conflict") or returns null ("unchanged").
StoreSet(es, gv, path, value, owner) ==
  IF OwnershipViolated(es, path, owner)
  THEN [outcome |-> "conflict", entries |-> es, globalVersion |-> gv]
  ELSE IF SetIsNoOp(es, path, value)
  THEN [outcome |-> "unchanged", entries |-> es, globalVersion |-> gv]
  ELSE LET previousVersion == IF has(es, path) THEN get(es, path).version
                              ELSE NullPreviousVersion
           newVersion == (IF has(es, path) THEN get(es, path).version
                          ELSE NullVersion) + 1
           entry == [path |-> path, value |-> value, owner |-> owner,
                     version |-> newVersion, stale |-> FALSE]
       IN [outcome |-> "applied",
           entries |-> MapSet(es, entry),
           globalVersion |-> gv + 1,
           delta |-> [path |-> path, entry |-> entry,
                      previousVersion |-> previousVersion, removed |-> FALSE]]

\* ------------------------------------------------------------------------
\* Messages
\* ------------------------------------------------------------------------
\* StateStore.entryToMessage.  `via`, `gv` and `sub` are history fields the
\* program does not send: whether the message was built for a delta or for a
\* snapshot, the store's global version when it was built, and the
\* subscription a snapshot message was streamed for.
entryToMessage(path, entry, via, gv, sub) ==
  [type |-> "state", source |-> HubSource, path |-> path,
   value |-> entry.value, stale |-> entry.stale, owner |-> entry.owner,
   version |-> entry.version, via |-> via, gv |-> gv, sub |-> sub]

deltaToMessage(delta, gv) == entryToMessage(delta.path, delta.entry, "delta", gv, 0)

\* createError as sendError calls it
ErrorMessage(original, code) ==
  [type |-> "error", source |-> HubSource, target |-> original.source,
   path |-> original.path, code |-> code]

\* the ack handleSubscribe builds
SubscribeAck(message, subscriptionId) ==
  [type |-> "ack", source |-> HubSource, target |-> message.source,
   status |-> "completed", subscriptionId |-> subscriptionId]

\* the snapshot_complete event handleSubscribe builds
CompleteEvent(subscriptionId) ==
  [type |-> "event", source |-> HubSource, path |-> "hub.subscriptions",
   event |-> "snapshot_complete", subscriptionId |-> subscriptionId]

\* ------------------------------------------------------------------------
\* Route targets (targets is the Map namespace -> target in insertion order)
\* ------------------------------------------------------------------------
NoTarget == [id |-> None, namespace |-> None]

RECURSIVE targetsGet(_, _)
targetsGet(tg, namespace) ==
  IF tg = <<>> THEN NoTarget
  ELSE IF Head(tg).namespace = namespace THEN Head(tg)
  ELSE targetsGet(Tail(tg), namespace)

RECURSIVE findTargetById(_, _)
findTargetById(tg, id) ==
  IF tg = <<>> THEN NoTarget
  ELSE IF Head(tg).id = id THEN Head(tg)
  ELSE findTargetById(Tail(tg), id)

\* a target registered by an in-process component under its own name
DirectTargets == {[id |-> "app.a", namespace |-> "app.a"]}
\* two in-process components that subscribe to the state
HandlerTargets == {[id |-> "app.a", namespace |-> "app.a"],
                   [id |-> "app.b", namespace |-> "app.b"]}
\* ClientTransportServer: generateUuidV7() session ids, in the order minted
SessionIds == <<"sess-1">>
\* the handshake names of the clients of the model
ClientNames == {"b"}
\* CompanionAdapter.connect: the two targets the adapter registers
AdapterTargets ==
  {[id |-> "companion-adapter-dev", namespace |-> "companion.satellite"],
   [id |-> "companion-adapter-dev-commands", namespace |-> "companion"]}
\* the target the commands of the model are addressed to
CommandHandlers == {t \in AdapterTargets : t.namespace = "companion.satellite"}
TargetIds ==
  {t.id : t \in DirectTargets \cup HandlerTargets \cup AdapterTargets}
    \cup {SessionIds[i] : i \in 1..Len(SessionIds)}

\* namespace.split('.') with the last part popped, for the namespaces of the
\* model; None when one part is left
NamespacePrefix(namespace) ==
  CASE namespace = "companion.satellite.page" -> "companion.satellite"
    [] namespace = "companion.satellite" -> "companion"
    [] namespace = "app.a" -> "app"
    [] namespace = "app.b" -> "app"
    [] namespace = "app.c" -> "app"
    [] OTHER -> None

\* MessageRouter.findTarget: the exact namespace, else its prefixes from the
\* longest
findTargetMutant(tg, namespace) == targetsGet(tg, namespace)
RECURSIVE findTarget(_, _)
findTarget(tg, namespace) ==
  IF targetsGet(tg, namespace) # NoTarget THEN targetsGet(tg, namespace)
  ELSE IF NamespacePrefix(namespace) = None THEN NoTarget
  ELSE findTarget(tg, NamespacePrefix(namespace))

\* sanitiseName followed by `app.${sanitisedName}`, for the names of the model
ClientNamespace(name) == CASE name = "b" -> "app.b"
                           [] name = "B" -> "app.b"
                           [] name = "c" -> "app.c"

\* ------------------------------------------------------------------------
\* Subscription manager (subs is subscriptionsById in insertion order)
\* ------------------------------------------------------------------------
\* the filter test of getMatchingSubscriptions
FilterAdmits(filter, messageType) ==
  ~ \/ (filter = "state" /\ messageType # "state")
    \/ (filter = "events" /\ messageType # "event")

SubscriptionMatches(s, path, messageType) ==
  /\ FilterAdmits(s.filter, messageType)
  /\ \E i \in 1..Len(s.patterns) : pathMatchesPattern(path, s.patterns[i])

SeqHas(q, x) == \E i \in 1..Len(q) : q[i] = x

\* getSubscribedClients: the Set of clientIds, in insertion order
RECURSIVE CollectClients(_, _, _, _)
CollectClients(ss, path, messageType, acc) ==
  IF ss = <<>> THEN acc
  ELSE LET s == Head(ss)
           acc2 == IF SubscriptionMatches(s, path, messageType) /\ ~SeqHas(acc, s.clientId)
                   THEN Append(acc, s.clientId) ELSE acc
       IN CollectClients(Tail(ss), path, messageType, acc2)

getSubscribedClients(ss, path, messageType) == CollectClients(ss, path, messageType, <<>>)

\* SubscriptionManager.subscribe: the subscription record
NewSubscription(id, clientId, patterns, filter, snapshot) ==
  [id |-> id, clientId |-> clientId, patterns |-> patterns, filter |-> filter,
   snapshot |-> snapshot, snapshotSent |-> FALSE]

\* ------------------------------------------------------------------------
\* Router: state delta fan-out
\* ------------------------------------------------------------------------
VARIABLE
  handlerKind   \* per target id, what RouteTarget.handler does when called

\* the guard of handleStateDelta and of routeEvent on the target found
NoSelfDeliveryMutant(target, origin) == target # NoTarget

NoSelfDelivery(target, origin) == target # NoTarget /\ target.namespace # origin

\* handleStateDelta: the handlers are called one after the other, inside set.
\* Promise.resolve(target.handler(message)).catch(...) evaluates the call of
\* the handler first: a rejected promise is caught, while a handler that
\* throws leaves the for loop (and is caught in StateStore.notifyListeners).
RECURSIVE FanOut(_, _, _, _, _)
FanOut(clients, tg, message, owner, ib) ==
  IF clients = <<>> THEN ib
  ELSE LET target == findTargetById(tg, Head(clients))
       IN IF ~NoSelfDelivery(target, owner)
          THEN FanOut(Tail(clients), tg, message, owner, ib)
          ELSE IF handlerKind[target.id] = "throws"
          THEN [ib EXCEPT ![target.id] = Append(@, message)]
          ELSE FanOut(Tail(clients), tg, message, owner,
                      [ib EXCEPT ![target.id] = Append(@, message)])

handleStateDelta(delta, gv, ss, tg, ib) ==
  FanOut(getSubscribedClients(ss, delta.path, "state"), tg,
         deltaToMessage(delta, gv), delta.entry.owner, ib)

\* sendError: delivered to the target registered for the source, if any
sendErrorMutant(original, code, tg, ib) ==
  LET sourceTarget == targetsGet(tg, original.target)
  IN IF sourceTarget # NoTarget
     THEN [ib EXCEPT ![sourceTarget.id] = Append(@, ErrorMessage(original, code))]
     ELSE ib
sendError(original, code, tg, ib) ==
  LET sourceTarget == targetsGet(tg, original.source)
  IN IF sourceTarget # NoTarget
     THEN [ib EXCEPT ![sourceTarget.id] = Append(@, ErrorMessage(original, code))]
     ELSE ib

\* getSnapshotForPattern then snapshotToMessages: the entries matching the
\* pattern, in the store's order
RECURSIVE snapshotToMessages(_, _, _, _)
snapshotToMessages(es, pattern, gv, sub) ==
  IF es = <<>> THEN <<>>
  ELSE (IF pathMatchesPattern(Head(es).path, pattern)
        THEN <<entryToMessage(Head(es).path, Head(es), "snapshot", gv, sub)>>
        ELSE <<>>) \o snapshotToMessages(Tail(es), pattern, gv, sub)

\* ------------------------------------------------------------------------
\* State
\* ------------------------------------------------------------------------
VARIABLES
  entries,        \* StateStore.entries, in insertion order
  globalVersion,  \* StateStore.globalVersion
  targets,        \* MessageRouter.targets, in insertion order
  sessionCount,   \* the number of session ids the transport has minted
  subs,           \* SubscriptionManager.subscriptionsById, in insertion order
  idCounter,      \* SubscriptionManager.idCounter
  inbox,          \* per target id, the messages its handler was called with
  subCalls,       \* the handleSubscribe calls, by subscription id
  evCalls,        \* the routeEvent calls, in the order started
  opsLeft,        \* the operations the run may still route
  subsLeft        \* the subscribes among them

VARIABLES
  idempotencyCache, \* MessageRouter.idempotencyCache, per key
  pendingCommands,  \* MessageRouter.pendingCommands, the command ids it holds
  cmdCalls,         \* the routeCommand calls, by command id
  ackLog,           \* the acks handed to route(), in order
  now,              \* Date.now(), in units of the idempotency TTL
  cmdsLeft          \* the commands the run may still route

VARIABLES
  connectionState,        \* CompanionAdapter.state.connectionState
  ws,                     \* CompanionAdapter.ws: an index of socks, 0 for null
  socks,                  \* the sockets the adapter created, by their status
  heartbeatTimer,         \* the heartbeat interval is armed
  reconnectTimer,         \* the reconnect timeout is armed
  connectionTimeoutTimer, \* the connection timeout is armed
  reconnectAttempts,      \* CompanionAdapter.state.reconnectAttempts
  router,                 \* CompanionAdapter.router is set
  lastError,              \* CompanionAdapter.state.lastError
  adapterEvents,          \* the events the adapter's latest handler emitted
  wire,                   \* the frames the adapter's latest handler wrote
  stateTrail,             \* the connectionState changes of the latest handler
  capabilities,           \* CompanionAdapter.state.capabilities
  handled,                \* the latest bridge command handled, and its acks
  autoReconnect,          \* config.autoReconnect
  maxReconnectAttempts    \* config.maxReconnectAttempts

routerVars == <<entries, globalVersion, targets, sessionCount, subs, idCounter,
                inbox, subCalls, evCalls, opsLeft, subsLeft>>

cmdVars == <<idempotencyCache, pendingCommands, cmdCalls, ackLog, now, cmdsLeft>>

VARIABLES
  listeners,    \* StateStore.listeners, in insertion order
  deliveries,   \* the listener calls of the latest call on the store
  lastCall,     \* the latest call on the store and what it returned
  lastVersion   \* per path, the version last stored or emitted for it

adapterVars == <<connectionState, ws, socks, heartbeatTimer, reconnectTimer,
                 connectionTimeoutTimer, reconnectAttempts, router, lastError,
                 adapterEvents, wire, stateTrail, capabilities, handled,
                 autoReconnect, maxReconnectAttempts>>

storeVars == <<listeners, deliveries, lastCall, lastVersion>>

VARIABLES
  lastRegister, \* the latest registerTarget call and whether it threw
  patternCall,  \* the latest pathMatchesPattern call and what it returned
  routerSequence, \* MessageRouter.sequenceCounter.value
  storeSequence,  \* StateStore.sequenceCounter.value
  emitted,        \* the messages the hub built, in order, with their sequence
  sessions,       \* ClientTransportServer.sessions: the sessions, by id
  wsToSession,    \* ClientTransportServer.wsToSession: per socket, a session id
  conns           \* the client sockets: how far each got, and its close code

clientVars == <<sessions, wsToSession, conns>>

probeVars == <<patternCall, routerSequence, storeSequence, emitted, handlerKind,
               clientVars>>

auxVars == <<lastRegister, probeVars>>

vars == <<routerVars, cmdVars, adapterVars, storeVars, auxVars>>

\* no call on the store yet
NoCall == [op |-> "none"]

\* the paths of the store's callers and the path its mirroring listener
\* writes
MirrorPath == "m.x"
StorePaths == Paths \cup {MirrorPath}

\* a handleSubscribe call that returned without a target to stream to
DoneCall == [pc |-> "done", tgt |-> None, snapshot |-> FALSE, pats |-> <<>>,
             msgs |-> <<>>, atSubscribe |-> <<>>, snapGv |-> -1]

InitRouter ==
  /\ entries = <<>>
  /\ globalVersion = 0
  /\ targets = <<>>
  /\ sessionCount = 0
  /\ subs = <<>>
  /\ idCounter = 0
  /\ inbox = [t \in TargetIds |-> <<>>]
  /\ subCalls = <<>>
  /\ evCalls = <<>>
  /\ listeners = <<"handleStateDelta">>
  /\ deliveries = <<>>
  /\ lastCall = NoCall
  /\ lastVersion = [p \in StorePaths |-> NullVersion]

\* no entry of the idempotency cache, and the result of an entry cached
\* without one
NullResult == [type |-> "null"]
NoCacheEntry == [result |-> NullResult, timestamp |-> -1]

\* the router after construction, as to its commands
InitCommands ==
  /\ idempotencyCache = [k \in IdempotencyKeys |-> NoCacheEntry]
  /\ pendingCommands = {}
  /\ cmdCalls = <<>>
  /\ ackLog = <<>>
  /\ now = 0

\* no target is registered under the namespace of t
Unbound(t) == targetsGet(targets, t.namespace) = NoTarget

\* no registerTarget call yet
NoRegister == [target |-> NoTarget, threw |-> FALSE]

\* no pathMatchesPattern call yet
NoPatternCall == [op |-> "none", pattern |-> <<>>, path |-> <<>>, result |-> FALSE]

\* the client sockets of the model, and a socket no connection came in on
Sockets == 1..MaxConnections

NoConnection == [state |-> "none", code |-> 0]

\* the client transport after construction
InitClients ==
  /\ sessions = {}
  /\ wsToSession = [w \in Sockets |-> None]
  /\ conns = [w \in Sockets |-> NoConnection]

\* MessageHandler = (message) => void | Promise<void>: a handler returns (or
\* resolves), throws before it returns, or returns a promise that rejects
HandlerKinds == {"ok", "throws", "rejects"}

\* the handlers of the transports and of the adapter: they return
InitAux ==
  /\ lastRegister = NoRegister
  /\ patternCall = NoPatternCall
  /\ routerSequence = 0
  /\ storeSequence = 0
  /\ emitted = <<>>
  /\ handlerKind = [t \in TargetIds |-> "ok"]
  /\ InitClients

\* DEFAULT_CAPABILITIES, as to the capabilities the command handlers test
DefaultCapabilities ==
  [supportsRotation |-> FALSE, supportsVariableWrite |-> TRUE, features |-> <<>>]

\* command.payload.params (a record of unknown values): `has` holds the keys
\* that are defined and `nulls` those of them whose value is null; a key that
\* is not defined or is null carries the value written here
NoParams ==
  [has |-> {}, nulls |-> {}, keyIndex |-> 0, page |-> 0, bank |-> 0,
   direction |-> "", name |-> "", value |-> ""]

\* no bridge command handled by the latest handler
NoHandled ==
  [command |-> [id |-> 0, source |-> None, action |-> None, params |-> NoParams],
   attached |-> FALSE, acks |-> <<>>, threw |-> FALSE]

\* the adapter after construction
InitAdapter ==
  /\ connectionState = "disconnected"
  /\ ws = 0
  /\ socks = <<>>
  /\ heartbeatTimer = FALSE
  /\ reconnectTimer = FALSE
  /\ connectionTimeoutTimer = FALSE
  /\ reconnectAttempts = 0
  /\ router = FALSE
  /\ lastError = NullValue
  /\ adapterEvents = <<>>
  /\ wire = <<>>
  /\ stateTrail = <<>>
  /\ capabilities = DefaultCapabilities
  /\ handled = NoHandled

Init ==
  /\ InitRouter
  /\ InitCommands
  /\ InitAux
  /\ InitAdapter
  /\ opsLeft = MaxOps
  /\ subsLeft = MaxSubscribes
  /\ cmdsLeft = 0
  /\ autoReconnect = TRUE
  /\ maxReconnectAttempts = 0

\* ------------------------------------------------------------------------
\* Actions: targets
\* ------------------------------------------------------------------------
\* MessageRouter.registerTarget: it throws, and changes nothing, when the
\* namespace is bound
registerTargetMutant(tg, t) == [threw |-> FALSE, targets |-> Append(tg, t)]
registerTarget(tg, t) ==
  IF targetsGet(tg, t.namespace) # NoTarget
  THEN [threw |-> TRUE, targets |-> tg]
  ELSE [threw |-> FALSE, targets |-> Append(tg, t)]

\* registerTarget called by an in-process component
RegisterTarget(t) ==
  /\ targets' = registerTarget(targets, t).targets
  /\ lastRegister' = [target |-> t, threw |-> registerTarget(targets, t).threw]
  /\ UNCHANGED probeVars
  /\ UNCHANGED <<entries, globalVersion, sessionCount, subs, idCounter, inbox,
                 subCalls, evCalls, opsLeft, subsLeft>>
  /\ UNCHANGED <<cmdVars, adapterVars, storeVars>>

\* SubscriptionManager.unsubscribeClient
unsubscribeClient(ss, clientId) == SelectSeq(ss, LAMBDA x : x.clientId # clientId)

\* this.targets.delete(namespace)
unregisterTarget(tg, namespace) == SelectSeq(tg, LAMBDA t : t.namespace # namespace)

\* MessageRouter.unregisterTarget: nothing when no target is bound to the
\* namespace; else the subscriptions whose clientId is the target's id and
\* the pending commands addressed to the namespace go, then the target
UnregisterTarget(namespace) ==
  LET target == targetsGet(targets, namespace)
  IN /\ target # NoTarget
     /\ subs' = unsubscribeClient(subs, target.id)
     /\ pendingCommands' =
          {id \in pendingCommands : cmdCalls[id].message.target # namespace}
     /\ targets' = unregisterTarget(targets, namespace)
     /\ UNCHANGED <<entries, globalVersion, sessionCount, idCounter, inbox,
                    subCalls, evCalls, opsLeft, subsLeft>>
     /\ UNCHANGED <<idempotencyCache, cmdCalls, ackLog, now, cmdsLeft>>
     /\ UNCHANGED <<adapterVars, storeVars, auxVars>>

\* the id is one the transport minted for a session
IsSessionId(id) == \E n \in 1..Len(SessionIds) : SessionIds[n] = id

\* the client of that name has a session: the target the transport
\* registered for it is bound
Connected(name) == IsSessionId(targetsGet(targets, ClientNamespace(name)).id)

\* ClientTransportServer.handleDisconnect, the close event of the socket of
\* a session: unregisterTarget(session.namespace)
HandleDisconnect(name) ==
  /\ Connected(name)
  /\ UnregisterTarget(ClientNamespace(name))

\* ClientTransportServer.processHandshake: a session id is minted and the
\* target {id: sessionId, namespace: app.<name>} is registered
ProcessHandshake(name) ==
  /\ sessionCount < Len(SessionIds)
  /\ targetsGet(targets, ClientNamespace(name)) = NoTarget
  /\ sessionCount' = sessionCount + 1
  /\ targets' = Append(targets, [id |-> SessionIds[sessionCount + 1],
                                 namespace |-> ClientNamespace(name)])
  /\ lastRegister' = [target |-> [id |-> SessionIds[sessionCount + 1],
                                    namespace |-> ClientNamespace(name)],
                       threw |-> FALSE]
  /\ UNCHANGED probeVars
  /\ UNCHANGED <<entries, globalVersion, subs, idCounter, inbox, subCalls,
                 evCalls, opsLeft, subsLeft>>
  /\ UNCHANGED <<cmdVars, adapterVars, storeVars>>

\* ------------------------------------------------------------------------
\* Actions: state writes
\* ------------------------------------------------------------------------
\* StateStore.set called on the store directly (as the adapters do).  The
\* router's listener runs inside the call.
SetDirect(path, value, owner) ==
  LET r == StoreSet(entries, globalVersion, path, value, owner)
  IN /\ opsLeft > 0
     /\ entries' = r.entries
     /\ globalVersion' = r.globalVersion
     /\ inbox' = IF r.outcome = "applied"
                 THEN handleStateDelta(r.delta, r.globalVersion, subs, targets, inbox)
                 ELSE inbox
     /\ opsLeft' = IF r.outcome = "applied" THEN opsLeft - 1 ELSE opsLeft
     /\ UNCHANGED <<targets, sessionCount, subs, idCounter, subCalls, evCalls, subsLeft>>
     /\ UNCHANGED <<cmdVars, adapterVars, storeVars, auxVars>>

\* MessageRouter.routeState: route() of a state message
RouteState(source, path, value) ==
  LET r == StoreSet(entries, globalVersion, path, value, source)
      message == [type |-> "state", source |-> source, path |-> path]
  IN /\ opsLeft > 0
     /\ entries' = r.entries
     /\ globalVersion' = r.globalVersion
     /\ inbox' = CASE r.outcome = "applied" ->
                        handleStateDelta(r.delta, r.globalVersion, subs, targets, inbox)
                   [] r.outcome = "conflict" ->
                        sendError(message, "STATE_CONFLICT", targets, inbox)
                   [] OTHER -> inbox
     /\ opsLeft' = IF r.outcome = "unchanged" THEN opsLeft ELSE opsLeft - 1
     /\ UNCHANGED <<targets, sessionCount, subs, idCounter, subCalls, evCalls, subsLeft>>
     /\ UNCHANGED <<cmdVars, adapterVars, storeVars, auxVars>>

\* ------------------------------------------------------------------------
\* Actions: subscribe
\* ------------------------------------------------------------------------
\* the first pattern of pats that has a snapshot message now, with the
\* patterns after it; <<>> when no pattern has one
RECURSIVE SkipEmptySnapshots(_, _)
SkipEmptySnapshots(pats, es) ==
  IF pats = <<>> THEN <<>>
  ELSE IF snapshotToMessages(es, Head(pats), 0, 0) # <<>> THEN pats
  ELSE SkipEmptySnapshots(Tail(pats), es)

\* handleSubscribe from the end of an await up to the next one: the next
\* snapshot message, else the next pattern's snapshot and its first message,
\* else the snapshot_complete event
StreamOn(id, call) ==
  IF call.msgs # <<>>
  THEN /\ inbox' = [inbox EXCEPT ![call.tgt] = Append(@, Head(call.msgs))]
       /\ subCalls' = [subCalls EXCEPT ![id] =
                         [call EXCEPT !.pc = "streaming", !.msgs = Tail(call.msgs)]]
  ELSE LET pats == SkipEmptySnapshots(call.pats, entries)
       IN IF pats # <<>>
          THEN LET messages == snapshotToMessages(entries, Head(pats), globalVersion, id)
               IN /\ inbox' = [inbox EXCEPT ![call.tgt] = Append(@, Head(messages))]
                  /\ subCalls' = [subCalls EXCEPT ![id] =
                                    [call EXCEPT !.pc = "streaming",
                                                 !.pats = Tail(pats),
                                                 !.msgs = Tail(messages),
                                                 !.snapGv = globalVersion]]
          ELSE /\ inbox' = [inbox EXCEPT ![call.tgt] = Append(@, CompleteEvent(id))]
               /\ subCalls' = [subCalls EXCEPT ![id] =
                                 [call EXCEPT !.pc = "completing", !.pats = <<>>,
                                              !.snapGv = IF call.pats # <<>>
                                                         THEN globalVersion
                                                         ELSE call.snapGv]]

\* MessageRouter.handleSubscribe up to its first await: the subscription is
\* created and the ack handed to the source's target
RouteSubscribe(source, patterns, filter, snapshot) ==
  LET id == idCounter + 1
      sourceTarget == targetsGet(targets, source)
      message == [type |-> "subscribe", source |-> source]
  IN /\ opsLeft > 0
     /\ subsLeft > 0
     /\ opsLeft' = opsLeft - 1
     /\ subsLeft' = subsLeft - 1
     /\ idCounter' = id
     /\ subs' = Append(subs, NewSubscription(id, source, patterns, filter, snapshot))
     /\ IF sourceTarget = NoTarget
        THEN /\ subCalls' = Append(subCalls, DoneCall)
             /\ inbox' = inbox
        ELSE /\ subCalls' = Append(subCalls,
                               [pc |-> "acked", tgt |-> sourceTarget.id,
                                snapshot |-> snapshot, pats |-> patterns,
                                msgs |-> <<>>, atSubscribe |-> entries, snapGv |-> -1])
             /\ inbox' = [inbox EXCEPT ![sourceTarget.id] =
                            Append(@, SubscribeAck(message, id))]
     /\ UNCHANGED <<entries, globalVersion, targets, sessionCount, evCalls>>
     /\ UNCHANGED <<cmdVars, adapterVars, storeVars, auxVars>>

\* markSnapshotSent
RECURSIVE markSnapshotSent(_, _)
markSnapshotSent(ss, id) ==
  IF ss = <<>> THEN <<>>
  ELSE <<IF Head(ss).id = id THEN [Head(ss) EXCEPT !.snapshotSent = TRUE] ELSE Head(ss)>>
       \o markSnapshotSent(Tail(ss), id)

\* handleSubscribe resumed after one of its awaits
SubscribeResume(id) ==
  LET call == subCalls[id]
  IN /\ id <= Len(subCalls)
     /\ call.pc \in {"acked", "streaming", "completing"}
     /\ CASE call.pc = "acked" /\ ~call.snapshot ->
               /\ subCalls' = [subCalls EXCEPT ![id] = [call EXCEPT !.pc = "done"]]
               /\ UNCHANGED <<inbox, subs>>
          [] call.pc = "completing" ->
               /\ subs' = markSnapshotSent(subs, id)
               /\ subCalls' = [subCalls EXCEPT ![id] = [call EXCEPT !.pc = "done"]]
               /\ UNCHANGED inbox
          [] OTHER ->
               /\ StreamOn(id, call)
               /\ UNCHANGED subs
     /\ UNCHANGED <<entries, globalVersion, targets, sessionCount, idCounter,
                    evCalls, opsLeft, subsLeft>>
     /\ UNCHANGED <<cmdVars, adapterVars, storeVars, auxVars>>

\* ------------------------------------------------------------------------
\* Actions: events
\* ------------------------------------------------------------------------
\* the loop of routeEvent skips the clients it does not deliver to
RECURSIVE SkipUndeliverable(_, _, _)
SkipUndeliverable(clients, tg, source) ==
  IF clients = <<>> THEN <<>>
  ELSE IF NoSelfDelivery(findTargetById(tg, Head(clients)), source) THEN clients
  ELSE SkipUndeliverable(Tail(clients), tg, source)

\* routeEvent from the start of the loop, or from the end of an await, up to
\* the next await
EventOn(k, message, clients) ==
  LET rest == SkipUndeliverable(clients, targets, message.source)
      call == [message |-> message, clients |-> IF rest = <<>> THEN <<>> ELSE Tail(rest),
               pc |-> IF rest = <<>> THEN "done" ELSE "awaiting"]
  IN /\ evCalls' = IF k > Len(evCalls) THEN Append(evCalls, call)
                   ELSE [evCalls EXCEPT ![k] = call]
     /\ inbox' = IF rest = <<>> THEN inbox
                 ELSE [inbox EXCEPT ![findTargetById(targets, Head(rest)).id] =
                         Append(@, message)]

RouteEvent(source, path) ==
  LET message == [type |-> "event", source |-> source, path |-> path, event |-> "custom"]
  IN /\ opsLeft > 0
     /\ opsLeft' = opsLeft - 1
     /\ EventOn(Len(evCalls) + 1, message, getSubscribedClients(subs, path, "event"))
     /\ UNCHANGED <<entries, globalVersion, targets, sessionCount, subs, idCounter,
                    subCalls, subsLeft>>
     /\ UNCHANGED <<cmdVars, adapterVars, storeVars, auxVars>>

EventResume(k) ==
  /\ k <= Len(evCalls)
  /\ evCalls[k].pc = "awaiting"
  /\ EventOn(k, evCalls[k].message, evCalls[k].clients)
  /\ UNCHANGED <<entries, globalVersion, targets, sessionCount, subs, idCounter,
                 subCalls, opsLeft, subsLeft>>
  /\ UNCHANGED <<cmdVars, adapterVars, storeVars, auxVars>>

\* ------------------------------------------------------------------------
\* Actions: commands and acks
\* ------------------------------------------------------------------------
CommandMessage(id, source, target, key, at) ==
  [type |-> "command", id |-> id, source |-> source, target |-> target,
   path |-> "cmd", idempotencyKey |-> key, ttl |-> CommandTtl, at |-> at]

\* createAck of routeCommand: the received ack
ReceivedAckMutant(message) ==
  [type |-> "ack", source |-> HubSource, target |-> message.source,
   commandId |-> message.id, status |-> "completed"]
ReceivedAck(message) ==
  [type |-> "ack", source |-> HubSource, target |-> message.source,
   commandId |-> message.id, status |-> "received"]

\* createAck of sendCompletedAck and sendErrorResponse: the terminal ack
TerminalAck(message, source, status) ==
  [type |-> "ack", source |-> source, target |-> message.source,
   commandId |-> message.id, status |-> status]

\* a handler call on the target of namespace ns, when one is registered
Deliver(tg, ib, namespace, message) ==
  IF targetsGet(tg, namespace) = NoTarget THEN ib
  ELSE [ib EXCEPT ![targetsGet(tg, namespace).id] = Append(@, message)]

\* the idempotency check at the head of routeCommand finds an entry
CacheHit(cache, key) == key # None /\ cache[key] # NoCacheEntry

\* MessageRouter.routeCommand up to its first await
RouteCommand(source, target, key) ==
  LET id == Len(cmdCalls) + 1
      message == CommandMessage(id, source, target, key, now)
      found == findTarget(targets, target)
      sourceTarget == targetsGet(targets, source)
      call == [message |-> message, target |-> found,
               sourceTarget |-> sourceTarget, pc |-> "done"]
  IN /\ cmdsLeft > 0
     /\ cmdsLeft' = cmdsLeft - 1
     /\ IF CacheHit(idempotencyCache, key)
        THEN /\ inbox' = IF idempotencyCache[key].result # NullResult
                         THEN Deliver(targets, inbox, source, idempotencyCache[key].result)
                         ELSE inbox
             /\ cmdCalls' = Append(cmdCalls, call)
        ELSE IF found = NoTarget
        THEN /\ inbox' = sendError(message, "UNKNOWN_TARGET", targets, inbox)
             /\ cmdCalls' = Append(cmdCalls, call)
        ELSE IF sourceTarget # NoTarget
        THEN /\ inbox' = [inbox EXCEPT ![sourceTarget.id] = Append(@, ReceivedAck(message))]
             /\ cmdCalls' = Append(cmdCalls, [call EXCEPT !.pc = "received"])
        ELSE /\ inbox' = [inbox EXCEPT ![found.id] = Append(@, message)]
             /\ cmdCalls' = Append(cmdCalls, [call EXCEPT !.pc = "handling"])
     /\ UNCHANGED <<entries, globalVersion, targets, sessionCount, subs, idCounter,
                    subCalls, evCalls, opsLeft, subsLeft>>
     /\ UNCHANGED <<idempotencyCache, pendingCommands, ackLog, now>>
     /\ UNCHANGED <<adapterVars, storeVars, auxVars>>

\* routeCommand resumed after the received ack: the handler of the target
\* it found is called with the command
CommandDispatch(id) ==
  /\ id <= Len(cmdCalls)
  /\ cmdCalls[id].pc = "received"
  /\ inbox' = [inbox EXCEPT ![cmdCalls[id].target.id] = Append(@, cmdCalls[id].message)]
  /\ cmdCalls' = [cmdCalls EXCEPT ![id].pc = "handling"]
  /\ UNCHANGED <<entries, globalVersion, targets, sessionCount, subs, idCounter,
                 subCalls, evCalls, opsLeft, subsLeft>>
  /\ UNCHANGED <<idempotencyCache, pendingCommands, ackLog, now, cmdsLeft>>
  /\ UNCHANGED <<adapterVars, storeVars, auxVars>>

\* routeCommand resumed after the target's handler: the key is cached with
\* no result when the handler returned, an ADAPTER_ERROR goes to the source
\* when it threw
CommandReturn(id, threw) ==
  LET message == cmdCalls[id].message
  IN /\ id <= Len(cmdCalls)
     /\ cmdCalls[id].pc = "handling"
     /\ cmdCalls' = [cmdCalls EXCEPT ![id].pc = "done"]
     /\ IF threw
        THEN /\ inbox' = sendError(message, "ADAPTER_ERROR", targets, inbox)
             /\ UNCHANGED idempotencyCache
        ELSE /\ idempotencyCache' =
                  IF message.idempotencyKey # None
                  THEN [idempotencyCache EXCEPT ![message.idempotencyKey] =
                          [result |-> NullResult, timestamp |-> now]]
                  ELSE idempotencyCache
             /\ UNCHANGED inbox
     /\ UNCHANGED <<entries, globalVersion, targets, sessionCount, subs, idCounter,
                    subCalls, evCalls, opsLeft, subsLeft>>
     /\ UNCHANGED <<pendingCommands, ackLog, now, cmdsLeft>>
     /\ UNCHANGED <<adapterVars, storeVars, auxVars>>

\* the target's handler was called with command id
Invoked(id) ==
  /\ id <= Len(cmdCalls)
  /\ \E t \in TargetIds : \E n \in 1..Len(inbox[t]) : inbox[t][n] = cmdCalls[id].message

\* an ack for command id went through route()
Acked(id) == \E n \in 1..Len(ackLog) : ackLog[n].commandId = id

\* MessageRouter.handleAck, for the terminal ack the target sends for a
\* command it was called with
HandleAck(id, status) ==
  LET message == cmdCalls[id].message
      ack == TerminalAck(message, cmdCalls[id].target.namespace, status)
  IN /\ Invoked(id)
     /\ ~Acked(id)
     /\ ackLog' = Append(ackLog, ack)
     /\ IF id \in pendingCommands
        THEN /\ pendingCommands' = pendingCommands \ {id}
             /\ idempotencyCache' =
                  IF message.idempotencyKey # None
                  THEN [idempotencyCache EXCEPT ![message.idempotencyKey] =
                          [result |-> ack, timestamp |-> now]]
                  ELSE idempotencyCache
        ELSE UNCHANGED <<pendingCommands, idempotencyCache>>
     /\ inbox' = Deliver(targets, inbox, ack.target, ack)
     /\ UNCHANGED <<entries, globalVersion, targets, sessionCount, subs, idCounter,
                    subCalls, evCalls, opsLeft, subsLeft>>
     /\ UNCHANGED <<cmdCalls, now, cmdsLeft>>
     /\ UNCHANGED <<adapterVars, storeVars, auxVars>>

\* MessageRouter.cleanupExpired, the callback of the cleanup interval
CleanupExpired ==
  /\ idempotencyCache' =
       [k \in IdempotencyKeys |->
          IF idempotencyCache[k] # NoCacheEntry
               /\ now - idempotencyCache[k].timestamp > IdempotencyTtl * 2
          THEN NoCacheEntry
          ELSE idempotencyCache[k]]
  /\ UNCHANGED <<routerVars, adapterVars, storeVars, auxVars>>
  /\ UNCHANGED <<pendingCommands, cmdCalls, ackLog, now, cmdsLeft>>

\* time passes
Tick ==
  /\ now < MaxTime
  /\ now' = now + 1
  /\ UNCHANGED <<routerVars, adapterVars, storeVars, auxVars>>
  /\ UNCHANGED <<idempotencyCache, pendingCommands, cmdCalls, ackLog, cmdsLeft>>

\* ------------------------------------------------------------------------
\* Companion adapter: the operations on the store it calls
\* ------------------------------------------------------------------------
AdapterNamespace == "companion.satellite"
DeviceId == "telemetry-bridge-001"
ConnectionStatePath == "companion.connection.state"
LastConnectedPath == "companion.connection.lastConnected"
LastErrorPath == "companion.connection.lastError"
VariablePath == "companion.variables.v"
VariableValues == {"1", "2"}

\* publishVariable: the value stored for variable v
VariableValue(value) == Obj(<<"name", "v", "value", value>>)

\* Date.now() when socket i opens
Timestamp(i) == Num(ToString(i))

\* the store with the messages its listener, the router, hands out
Hub == [entries |-> entries, globalVersion |-> globalVersion, inbox |-> inbox]

\* StateStore.set as the adapter calls it, with the router's listener
HubSet(hub, path, value, owner) ==
  LET r == StoreSet(hub.entries, hub.globalVersion, path, value, owner)
  IN [entries |-> r.entries,
      globalVersion |-> r.globalVersion,
      inbox |-> IF r.outcome = "applied"
                THEN handleStateDelta(r.delta, r.globalVersion, subs, targets, hub.inbox)
                ELSE hub.inbox]

\* the test of markOwnerStale on an entry
FlipsStaleMutant(entry, owner) == entry.owner = owner
FlipsStale(entry, owner) == entry.owner = owner /\ ~entry.stale

\* StateStore.markOwnerStale, from entry i on: each entry it flips gets the
\* next version, the global version goes up and the listeners get the delta
RECURSIVE MarkOwnerStaleFrom(_, _, _)
MarkOwnerStaleFrom(hub, owner, i) ==
  IF i > Len(hub.entries) THEN hub
  ELSE IF FlipsStale(hub.entries[i], owner)
  THEN LET newEntry == [hub.entries[i] EXCEPT !.stale = TRUE, !.version = @ + 1]
           delta == [path |-> newEntry.path, entry |-> newEntry,
                     previousVersion |-> hub.entries[i].version, removed |-> FALSE]
       IN MarkOwnerStaleFrom(
            [entries |-> [hub.entries EXCEPT ![i] = newEntry],
             globalVersion |-> hub.globalVersion + 1,
             inbox |-> handleStateDelta(delta, hub.globalVersion + 1, subs, targets,
                                        hub.inbox)],
            owner, i + 1)
  ELSE MarkOwnerStaleFrom(hub, owner, i + 1)

markOwnerStale(hub, owner) == MarkOwnerStaleFrom(hub, owner, 1)

\* ------------------------------------------------------------------------
\* Companion adapter: its methods, on the record of its fields and the hub
\* ------------------------------------------------------------------------
Adapter ==
  [connectionState |-> connectionState, ws |-> ws, socks |-> socks,
   heartbeatTimer |-> heartbeatTimer, reconnectTimer |-> reconnectTimer,
   connectionTimeoutTimer |-> connectionTimeoutTimer,
   reconnectAttempts |-> reconnectAttempts, router |-> router,
   lastError |-> lastError, adapterEvents |-> <<>>, wire |-> <<>>,
   stateTrail |-> <<>>, capabilities |-> capabilities, handled |-> NoHandled,
   hub |-> Hub]

emitEvent(a, type) == [a EXCEPT !.adapterEvents = Append(@, type)]

markStateAsStale(a) ==
  IF a.router THEN [a EXCEPT !.hub = markOwnerStale(@, AdapterNamespace)] ELSE a

\* updateConnectionState(state, reason); reason None when not given
updateConnectionState(a, state, reason) ==
  LET a1 == [a EXCEPT !.connectionState = state,
                      !.stateTrail = Append(@, <<a.connectionState, state>>),
                      !.lastError = IF reason # None /\ state = "error"
                                    THEN Str(reason) ELSE @]
  IN IF state = "disconnected" /\ a.connectionState # "disconnected"
     THEN emitEvent(markStateAsStale(a1), "disconnected")
     ELSE a1

clearTimers(a) ==
  [a EXCEPT !.heartbeatTimer = FALSE, !.reconnectTimer = FALSE,
            !.connectionTimeoutTimer = FALSE]

scheduleReconnectMutant(a) ==
  IF a.reconnectTimer THEN a
  ELSE IF maxReconnectAttempts > 0 /\ a.reconnectAttempts > maxReconnectAttempts
  THEN updateConnectionState(a, "error", "Max reconnect attempts reached")
  ELSE [emitEvent(updateConnectionState(
                    [a EXCEPT !.reconnectAttempts = @ + 1], "reconnecting", None),
                  "reconnecting")
          EXCEPT !.reconnectTimer = TRUE]
scheduleReconnect(a) ==
  IF a.reconnectTimer THEN a
  ELSE IF maxReconnectAttempts > 0 /\ a.reconnectAttempts >= maxReconnectAttempts
  THEN updateConnectionState(a, "error", "Max reconnect attempts reached")
  ELSE [emitEvent(updateConnectionState(
                    [a EXCEPT !.reconnectAttempts = @ + 1], "reconnecting", None),
                  "reconnecting")
          EXCEPT !.reconnectTimer = TRUE]

handleConnectionError(a, message) ==
  LET a1 == updateConnectionState([a EXCEPT !.lastError = Str(message)], "error", message)
  IN IF autoReconnect THEN scheduleReconnect(a1) ELSE a1

\* connectToCompanion: a new socket, and the connection timeout armed
connectToCompanion(a) ==
  IF a.connectionState = "connecting" THEN a
  ELSE [updateConnectionState(a, "connecting", None)
          EXCEPT !.socks = Append(@, "connecting"),
                 !.ws = Len(a.socks) + 1,
                 !.connectionTimeoutTimer = TRUE]

\* sendSatelliteCommand: the frame goes out when this.ws is an open socket
\* [command, ...args].join(' ')
RECURSIVE JoinWords(_)
JoinWords(words) ==
  IF Len(words) = 1 THEN words[1]
  ELSE words[1] \o " " \o JoinWords(Tail(words))

sendSatelliteCommand(a, command, args) ==
  IF a.ws # 0 /\ a.socks[a.ws] = "open"
  THEN [a EXCEPT !.wire = Append(@, [sock |-> a.ws, command |-> command,
                                     message |-> JoinWords(<<command>> \o args)])]
  ELSE a

publishConnectionState(a, lastConnected) ==
  IF ~a.router THEN a
  ELSE [a EXCEPT !.hub =
          HubSet(HubSet(HubSet(@, ConnectionStatePath, Str(a.connectionState),
                               AdapterNamespace),
                        LastConnectedPath, lastConnected, AdapterNamespace),
                 LastErrorPath, a.lastError, AdapterNamespace)]

publishVariable(a, value) ==
  IF ~a.router THEN a
  ELSE [a EXCEPT !.hub = HubSet(@, VariablePath, VariableValue(value), AdapterNamespace)]

\* handleWebSocketOpen, for the open event of socket i
handleWebSocketOpen(a, i) ==
  LET a1 == sendSatelliteCommand([a EXCEPT !.connectionTimeoutTimer = FALSE], "BEGIN",
                                 <<DeviceId, "Telemetry Bridge", "8", "32", "72">>)
      a2 == updateConnectionState([a1 EXCEPT !.reconnectAttempts = 0], "connected", None)
      a3 == emitEvent([a2 EXCEPT !.heartbeatTimer = TRUE], "connected")
  IN publishConnectionState(a3, Timestamp(i))

handleWebSocketError(a) ==
  emitEvent([a EXCEPT !.lastError = Str("socket error")], "error")

handleWebSocketClose(a) ==
  LET a1 == [clearTimers(a) EXCEPT !.ws = 0]
      wasConnected == a1.connectionState = "connected"
      a2 == emitEvent(updateConnectionState(a1, "disconnected", "Close code"),
                      "disconnected")
      a3 == IF a2.router THEN [a2 EXCEPT !.hub = markOwnerStale(@, AdapterNamespace)]
            ELSE a2
  IN IF wasConnected /\ autoReconnect THEN scheduleReconnect(a3) ELSE a3

\* the fields of the adapter, the store and the messages become those of a
Becomes(a) ==
  /\ connectionState' = a.connectionState
  /\ ws' = a.ws
  /\ socks' = a.socks
  /\ heartbeatTimer' = a.heartbeatTimer
  /\ reconnectTimer' = a.reconnectTimer
  /\ connectionTimeoutTimer' = a.connectionTimeoutTimer
  /\ reconnectAttempts' = a.reconnectAttempts
  /\ router' = a.router
  /\ lastError' = a.lastError
  /\ adapterEvents' = a.adapterEvents
  /\ wire' = a.wire
  /\ stateTrail' = a.stateTrail
  /\ capabilities' = a.capabilities
  /\ handled' = a.handled
  /\ entries' = a.hub.entries
  /\ globalVersion' = a.hub.globalVersion
  /\ inbox' = a.hub.inbox
  /\ UNCHANGED <<autoReconnect, maxReconnectAttempts>>

\* ------------------------------------------------------------------------
\* Actions: the Companion adapter
\* ------------------------------------------------------------------------
\* what the adapter's actions leave alone
AdapterFrame ==
  /\ UNCHANGED <<sessionCount, idCounter, subCalls, evCalls, subsLeft>>
  /\ UNCHANGED <<cmdVars, storeVars>>

\* CompanionAdapter.connect: the two targets are registered and the first
\* socket is created
Connect ==
  /\ ~router
  /\ \A t \in AdapterTargets : targetsGet(targets, t.namespace) = NoTarget
  /\ Len(socks) < MaxSockets
  /\ targets' = targets
       \o <<[id |-> "companion-adapter-dev", namespace |-> "companion.satellite"],
            [id |-> "companion-adapter-dev-commands", namespace |-> "companion"]>>
  /\ \E a \in {connectToCompanion([Adapter EXCEPT !.router = TRUE])} : Becomes(a)
  /\ lastRegister' = [target |-> [id |-> "companion-adapter-dev-commands",
                                    namespace |-> "companion"],
                       threw |-> FALSE]
  /\ UNCHANGED probeVars
  /\ UNCHANGED <<subs, opsLeft>>
  /\ AdapterFrame

\* CompanionAdapter.disconnect
Disconnect ==
  LET a1 == clearTimers(Adapter)
      a2 == IF a1.ws # 0
            THEN [a1 EXCEPT !.socks[a1.ws] = IF @ = "closed" THEN @ ELSE "closing",
                            !.ws = 0]
            ELSE a1
      a3 == updateConnectionState(a2, "disconnected", "Manual disconnect")
  IN /\ router
     /\ \E a \in {[a3 EXCEPT !.router = FALSE]} : Becomes(a)
     /\ subs' = unsubscribeClient(
                  unsubscribeClient(subs, targetsGet(targets, AdapterNamespace).id),
                  targetsGet(targets, "companion").id)
     /\ targets' = unregisterTarget(unregisterTarget(targets, AdapterNamespace), "companion")
     /\ UNCHANGED <<opsLeft, auxVars>>
     /\ AdapterFrame

\* the open event of socket i
SocketOpen(i) ==
  /\ i <= Len(socks)
  /\ socks[i] = "connecting"
  /\ \E a \in {handleWebSocketOpen([Adapter EXCEPT !.socks[i] = "open"], i)} :
       Becomes(a)
  /\ UNCHANGED <<targets, subs, opsLeft, auxVars>>
  /\ AdapterFrame

\* the close event of socket i, after its error event when failed
SocketClose(i, failed) ==
  LET a1 == [Adapter EXCEPT !.socks[i] = "closed"]
  IN /\ i <= Len(socks)
     /\ socks[i] # "closed"
     /\ \E a \in {handleWebSocketClose(IF failed THEN handleWebSocketError(a1)
                                       ELSE a1)} : Becomes(a)
     /\ UNCHANGED <<targets, subs, opsLeft, auxVars>>
     /\ AdapterFrame

\* the callback of the connection timeout
ConnectionTimeout ==
  LET a1 == [Adapter EXCEPT !.connectionTimeoutTimer = FALSE]
      a2 == IF a1.ws # 0
            THEN [a1 EXCEPT !.socks[a1.ws] = IF @ = "closed" THEN @ ELSE "closing"]
            ELSE a1
  IN /\ connectionTimeoutTimer
     /\ \E a \in {IF connectionState = "connecting"
                THEN handleConnectionError(a2, "Connection timeout")
                ELSE a1} : Becomes(a)
     /\ UNCHANGED <<targets, subs, opsLeft, auxVars>>
     /\ AdapterFrame

\* the callback of the reconnect timer
ReconnectTimeout ==
  /\ reconnectTimer
  /\ Len(socks) < MaxSockets
  /\ \E a \in {connectToCompanion([Adapter EXCEPT !.reconnectTimer = FALSE])} : Becomes(a)
  /\ UNCHANGED <<targets, subs, opsLeft, auxVars>>
  /\ AdapterFrame

\* the callback of the heartbeat interval, when this.ws is an open socket
Heartbeat ==
  /\ heartbeatTimer
  /\ ws # 0
  /\ socks[ws] = "open"
  /\ \E a \in {sendSatelliteCommand(Adapter, "PING", <<>>)} : Becomes(a)
  /\ UNCHANGED <<targets, subs, opsLeft, auxVars>>
  /\ AdapterFrame

\* handleWebSocketMessage for a VARIABLES-UPDATE frame on socket i that sets
\* variable v
VariablesUpdate(i, value) ==
  /\ i <= Len(socks)
  /\ socks[i] = "open"
  /\ opsLeft > 0
  /\ opsLeft' = opsLeft - 1
  /\ \E a \in {emitEvent(publishVariable(Adapter, value), "variable_update")} : Becomes(a)
  /\ UNCHANGED <<targets, subs, auxVars>>
  /\ AdapterFrame

\* ------------------------------------------------------------------------
\* Companion adapter: capabilities and bridge commands
\* ------------------------------------------------------------------------
CapabilitiesPath == "companion.capabilities"

\* the ADD-DEVICE argument lists of the model
DeviceArgs == {<<>>, <<"ROTATION">>, <<"VARIABLE_WRITE", "ROTATION">>}

\* detectCapabilities: the loop over the arguments, on a copy of the defaults
RECURSIVE ParseCapabilities(_, _)
ParseCapabilities(c, args) ==
  IF args = <<>> THEN c
  ELSE ParseCapabilities(
         CASE Head(args) = "ROTATION" ->
                [c EXCEPT !.supportsRotation = TRUE,
                          !.features = Append(@, "rotation")]
           [] Head(args) = "VARIABLE_WRITE" ->
                [c EXCEPT !.supportsVariableWrite = TRUE,
                          !.features = Append(@, "variable_write")]
           [] OTHER -> c,
         Tail(args))

BoolText(b) == IF b THEN "true" ELSE "false"

RECURSIVE JoinComma(_)
JoinComma(words) ==
  IF words = <<>> THEN ""
  ELSE IF Len(words) = 1 THEN words[1]
  ELSE words[1] \o "," \o JoinComma(Tail(words))

\* the capabilities object as a value of the store
CapabilitiesValue(c) ==
  Obj("{supportsRotation:" \o BoolText(c.supportsRotation)
      \o ",supportsVariableWrite:" \o BoolText(c.supportsVariableWrite)
      \o ",features:[" \o JoinComma(c.features) \o "]}")

publishCapabilities(a) ==
  IF ~a.router THEN a
  ELSE [a EXCEPT !.hub = HubSet(@, CapabilitiesPath, CapabilitiesValue(a.capabilities),
                                AdapterNamespace)]

detectCapabilities(a, args) ==
  emitEvent(publishCapabilities(
              [a EXCEPT !.capabilities = ParseCapabilities(DefaultCapabilities, args)]),
            "capabilities_detected")

\* createAck of sendCompletedAck and sendErrorResponse; code is None for a
\* completed ack
AdapterAck(command, status, code) ==
  [type |-> "ack", source |-> AdapterNamespace, target |-> command.source,
   commandId |-> command.id, status |-> status, code |-> code]

\* router.route(ack): handleAck finds no pending command and hands the ack
\* to the target registered for its target namespace
routeAck(a, ack) ==
  [a EXCEPT !.handled.acks = Append(@, ack),
            !.hub.inbox = Deliver(targets, @, ack.target, ack)]

sendCompletedAck(a, command) ==
  IF ~a.router THEN a ELSE routeAck(a, AdapterAck(command, "completed", None))

sendErrorResponse(a, command, code) ==
  IF ~a.router THEN a ELSE routeAck(a, AdapterAck(command, "failed", code))

Defined(params, key) == key \in params.has

IsNull(params, key) == key \in params.nulls

\* a TypeError leaves the handler: its promise rejects
Throws(a) == [a EXCEPT !.handled.threw = TRUE]

\* handlePressCommand and handleReleaseCommand, which differ in the key state
\* they send.  keyIndex.toString() throws when keyIndex is null.
KeyCommand(a, command, keyState) ==
  LET params == command.params
  IN IF Defined(params, "keyIndex") /\ IsNull(params, "keyIndex")
     THEN Throws(a)
     ELSE IF Defined(params, "keyIndex")
     THEN sendCompletedAck(
            sendSatelliteCommand(a, "KEY-PRESS",
              <<DeviceId, ToString(params.keyIndex), keyState>>), command)
     ELSE IF Defined(params, "page") /\ Defined(params, "bank")
     THEN sendCompletedAck(
            sendSatelliteCommand(a, "KEY-PRESS",
              <<DeviceId, ToString((params.page - 1) * 8 + params.bank), keyState>>),
            command)
     ELSE sendErrorResponse(a, command, "INVALID_MESSAGE")

handlePressCommand(a, command) == KeyCommand(a, command, "PRESSED")

handleReleaseCommand(a, command) == KeyCommand(a, command, "RELEASED")

\* !params?.keyIndex and !params?.direction: undefined, null, 0 and '' are
\* falsy
handleRotateCommand(a, command) ==
  LET params == command.params
  IN IF ~a.capabilities.supportsRotation
     THEN sendErrorResponse(a, command, "ADAPTER_ERROR")
     ELSE IF \/ ~Defined(params, "keyIndex") \/ IsNull(params, "keyIndex")
             \/ params.keyIndex = 0
             \/ ~Defined(params, "direction") \/ params.direction = ""
     THEN sendErrorResponse(a, command, "INVALID_MESSAGE")
     ELSE sendCompletedAck(
            sendSatelliteCommand(a, "KEY-ROTATE",
              <<DeviceId, ToString(params.keyIndex),
                IF params.direction = "left" THEN "-1" ELSE "1">>), command)

\* encodeURIComponent leaves the values of the model (digits) as they are
handleSetVariableCommand(a, command) ==
  LET params == command.params
  IN IF ~a.capabilities.supportsVariableWrite
     THEN sendErrorResponse(a, command, "ADAPTER_ERROR")
     ELSE IF ~Defined(params, "name") \/ params.name = "" \/ ~Defined(params, "value")
     THEN sendErrorResponse(a, command, "INVALID_MESSAGE")
     ELSE sendCompletedAck(
            sendSatelliteCommand(a, "VARIABLE-VALUE",
              <<params.name \o "=" \o params.value>>), command)

handleGetVariableCommand(a, command) ==
  LET params == command.params
  IN IF ~Defined(params, "name") \/ params.name = ""
     THEN sendErrorResponse(a, command, "INVALID_MESSAGE")
     ELSE sendCompletedAck(a, command)

handleClearKeysCommand(a, command) ==
  sendCompletedAck(sendSatelliteCommand(a, "KEYS-CLEAR", <<DeviceId>>), command)

handleBridgeMessage(a, command) ==
  CASE command.action = "press" -> handlePressCommand(a, command)
    [] command.action = "release" -> handleReleaseCommand(a, command)
    [] command.action = "rotate" -> handleRotateCommand(a, command)
    [] command.action = "setVariable" -> handleSetVariableCommand(a, command)
    [] command.action = "getVariable" -> handleGetVariableCommand(a, command)
    [] command.action = "clearKeys" -> handleClearKeysCommand(a, command)
    [] OTHER -> sendErrorResponse(a, command, "ADAPTER_ERROR")

\* the params of the commands of the model, per action
KeyParams ==
  {[NoParams EXCEPT !.has = h, !.nulls = h \cap n,
                    !.keyIndex = IF "keyIndex" \in h \ n THEN k ELSE 0,
                    !.page = IF "page" \in h THEN 1 ELSE 0]
     : h \in SUBSET {"keyIndex", "page", "bank"}, n \in SUBSET {"keyIndex"},
       k \in {0, 1}}

RotateParams ==
  {[NoParams EXCEPT !.has = h, !.nulls = h \cap n,
                    !.keyIndex = IF "keyIndex" \in h \ n THEN k ELSE 0,
                    !.direction = IF "direction" \in h THEN d ELSE ""]
     : h \in SUBSET {"keyIndex", "direction"}, n \in SUBSET {"keyIndex"},
       k \in {0, 1}, d \in {"left", "right"}}

VariableParams ==
  {[NoParams EXCEPT !.has = h, !.name = IF "name" \in h THEN "v" ELSE "",
                    !.value = IF "value" \in h THEN "1" ELSE ""]
     : h \in SUBSET {"name", "value"}}

BridgeActions ==
  {"press", "release", "rotate", "setVariable", "getVariable", "clearKeys", "reboot"}

ParamsOf(action) ==
  CASE action \in {"press", "release"} -> KeyParams
    [] action = "rotate" -> RotateParams
    [] action \in {"setVariable", "getVariable"} -> VariableParams
    [] OTHER -> {NoParams}

\* handleWebSocketMessage for an ADD-DEVICE frame on socket i
AddDevice(i, args) ==
  /\ i <= Len(socks)
  /\ socks[i] = "open"
  /\ opsLeft > 0
  /\ opsLeft' = opsLeft - 1
  /\ \E a \in {detectCapabilities(Adapter, args)} : Becomes(a)
  /\ UNCHANGED <<targets, subs, auxVars>>
  /\ AdapterFrame

\* the handler the adapter registered is called with a command of source
\* app.a; the commands are numbered downwards
HandleBridgeMessage(action, params) ==
  LET command == [id |-> cmdsLeft, source |-> "app.a", action |-> action,
                  params |-> params]
  IN /\ cmdsLeft > 0
     /\ cmdsLeft' = cmdsLeft - 1
     /\ \E a \in {handleBridgeMessage(
                     [Adapter EXCEPT !.handled = [command |-> command,
                                                  attached |-> router,
                                                  acks |-> <<>>,
                                                  threw |-> FALSE]], command)} :
          /\ Becomes(a)
          /\ ackLog' = ackLog \o a.handled.acks
     /\ UNCHANGED <<targets, subs, opsLeft, auxVars>>
     /\ UNCHANGED <<sessionCount, idCounter, subCalls, evCalls, subsLeft>>
     /\ UNCHANGED <<idempotencyCache, pendingCommands, cmdCalls, now>>
     /\ UNCHANGED storeVars

\* ------------------------------------------------------------------------
\* Specification of the router with the store and the subscriptions
\* ------------------------------------------------------------------------
Next ==
  \/ \E t \in DirectTargets : Unbound(t) /\ RegisterTarget(t)
  \/ \E name \in ClientNames : ProcessHandshake(name)
  \/ \E p \in Paths, v \in Values, o \in Sources : SetDirect(p, v, o)
  \/ \E s \in Sources, p \in Paths, v \in Values : RouteState(s, p, v)
  \/ \E s \in Sources, pl \in PatternLists, f \in Filters, sn \in BOOLEAN :
       RouteSubscribe(s, pl, f, sn)
  \/ \E id \in CallIds : SubscribeResume(id)
  \/ \E s \in Sources, p \in EventPaths : RouteEvent(s, p)
  \/ \E k \in CallIds : EventResume(k)

Spec == Init /\ [][Next]_vars

\* ------------------------------------------------------------------------
\* Specification of the fan-out of writes and events: the same router, with
\* the subscribes that ask for no snapshot
\* ------------------------------------------------------------------------
InitFanOut ==
  /\ InitRouter
  /\ InitCommands
  /\ InitAux
  /\ InitAdapter
  /\ opsLeft = MaxFanOutOps
  /\ subsLeft = MaxFanOutSubscribes
  /\ cmdsLeft = 0
  /\ autoReconnect = TRUE
  /\ maxReconnectAttempts = 0

NextFanOut ==
  \/ \E t \in DirectTargets : Unbound(t) /\ RegisterTarget(t)
  \/ \E name \in ClientNames : ProcessHandshake(name)
  \/ \E p \in Paths, v \in Values, o \in Sources : SetDirect(p, v, o)
  \/ \E s \in Sources, p \in Paths, v \in Values : RouteState(s, p, v)
  \/ \E s \in Sources, pl \in PatternLists, f \in Filters :
       RouteSubscribe(s, pl, f, FALSE)
  \/ \E id \in CallIds : SubscribeResume(id)
  \/ \E s \in Sources, p \in EventPaths : RouteEvent(s, p)
  \/ \E k \in CallIds : EventResume(k)

SpecFanOut == InitFanOut /\ [][NextFanOut]_vars

\* ------------------------------------------------------------------------
\* Specification of the commands: the router with its targets, the commands
\* routed to the adapter's namespace and the acks coming back
\* ------------------------------------------------------------------------
InitCmd ==
  /\ InitRouter
  /\ InitCommands
  /\ InitAux
  /\ InitAdapter
  /\ opsLeft = 0
  /\ subsLeft = 0
  /\ cmdsLeft = MaxCommands
  /\ autoReconnect = TRUE
  /\ maxReconnectAttempts = 0

NextCmd ==
  \/ \E t \in DirectTargets \cup CommandHandlers : Unbound(t) /\ RegisterTarget(t)
  \/ \E s \in CommandSources, t \in CommandTargets, k \in IdempotencyKeys \cup {None} :
       RouteCommand(s, t, k)
  \/ \E id \in 1..MaxCommands : CommandDispatch(id)
  \/ \E id \in 1..MaxCommands, threw \in BOOLEAN : CommandReturn(id, threw)
  \/ \E id \in 1..MaxCommands, st \in AckStatuses : HandleAck(id, st)
  \/ CleanupExpired
  \/ Tick

SpecCmd == InitCmd /\ [][NextCmd]_vars

\* ------------------------------------------------------------------------
\* Specification of the dispatch of commands: the router with the targets
\* registered on it (the sender, the adapter's two namespaces), the commands
\* and their acks, with the clock standing still
\* ------------------------------------------------------------------------
\* the targets registered so far, in the order of their registerTarget calls
TargetLists ==
  {<<[id |-> "app.a", namespace |-> "app.a"]>>,
   <<[id |-> "companion-adapter-dev", namespace |-> "companion.satellite"]>>,
   <<[id |-> "app.a", namespace |-> "app.a"],
     [id |-> "companion-adapter-dev-commands", namespace |-> "companion"]>>,
   <<[id |-> "app.a", namespace |-> "app.a"],
     [id |-> "companion-adapter-dev", namespace |-> "companion.satellite"],
     [id |-> "companion-adapter-dev-commands", namespace |-> "companion"]>>}

InitDispatch ==
  /\ entries = <<>>
  /\ globalVersion = 0
  /\ targets \in TargetLists
  /\ sessionCount = 0
  /\ subs = <<>>
  /\ idCounter = 0
  /\ inbox = [t \in TargetIds |-> <<>>]
  /\ subCalls = <<>>
  /\ evCalls = <<>>
  /\ listeners = <<"handleStateDelta">>
  /\ deliveries = <<>>
  /\ lastCall = NoCall
  /\ lastVersion = [p \in StorePaths |-> NullVersion]
  /\ InitCommands
  /\ InitAux
  /\ InitAdapter
  /\ opsLeft = 0
  /\ subsLeft = 0
  /\ cmdsLeft = MaxDispatch
  /\ autoReconnect = TRUE
  /\ maxReconnectAttempts = 0

\* the namespaces the commands are addressed to: the adapter's, and one no
\* target is registered for under any prefix
DispatchTargets == {"companion.satellite", "app.b"}
\* AckStatus but RECEIVED
TerminalStatuses == {"completed", "failed", "timeout", "rejected"}

NextDispatch ==
  \/ \E s \in CommandSources, t \in DispatchTargets, k \in IdempotencyKeys \cup {None} :
       RouteCommand(s, t, k)
  \/ \E id \in CallIds : CommandDispatch(id)
  \/ \E id \in CallIds, threw \in BOOLEAN : CommandReturn(id, threw)
  \/ \E id \in CallIds, st \in TerminalStatuses : HandleAck(id, st)

SpecDispatch == InitDispatch /\ [][NextDispatch]_vars

\* ------------------------------------------------------------------------
\* Specification of the routing of commands to the targets found or not
\* found: the same router and targets, the handlers returning or throwing,
\* no acks
\* ------------------------------------------------------------------------
InitRoute ==
  /\ entries = <<>>
  /\ globalVersion = 0
  /\ targets \in TargetLists
  /\ sessionCount = 0
  /\ subs = <<>>
  /\ idCounter = 0
  /\ inbox = [t \in TargetIds |-> <<>>]
  /\ subCalls = <<>>
  /\ evCalls = <<>>
  /\ listeners = <<"handleStateDelta">>
  /\ deliveries = <<>>
  /\ lastCall = NoCall
  /\ lastVersion = [p \in StorePaths |-> NullVersion]
  /\ InitCommands
  /\ InitAux
  /\ InitAdapter
  /\ opsLeft = 0
  /\ subsLeft = 0
  /\ cmdsLeft = MaxRouted
  /\ autoReconnect = TRUE
  /\ maxReconnectAttempts = 0

NextRoute ==
  \/ \E s \in CommandSources, t \in DispatchTargets, k \in IdempotencyKeys \cup {None} :
       RouteCommand(s, t, k)
  \/ \E id \in CallIds : CommandDispatch(id)
  \/ \E id \in CallIds, threw \in BOOLEAN : CommandReturn(id, threw)

SpecRoute == InitRoute /\ [][NextRoute]_vars

\* ------------------------------------------------------------------------
\* Specification of pattern matching: pathMatchesPattern applied to
\* patterns and paths given by their segments
\* ------------------------------------------------------------------------
\* the segments of paths, and those of patterns
PathSegments == {"a", "b"}
PatternSegments == {"a", "*", "**"}

\* the sequences of 1 to n elements of S
SeqsUpTo(S, n) == UNION {[1..k -> S] : k \in 1..n}

\* the characters of a segment
SegmentChars(seg) == IF seg = "**" THEN <<"*", "*">> ELSE <<seg>>

\* segs.join('.'), as characters
RECURSIVE JoinSegments(_)
JoinSegments(segs) ==
  IF Len(segs) = 1 THEN SegmentChars(segs[1])
  ELSE SegmentChars(segs[1]) \o <<".">> \o JoinSegments(Tail(segs))

\* pathMatchesPattern(path, pattern) for the path and the pattern of these
\* segments
PathMatchesPattern(pattern, path) ==
  /\ patternCall' =
       [op |-> "pathMatchesPattern", pattern |-> pattern, path |-> path,
        result |-> regexTest(patternTokens(JoinSegments(pattern)), JoinSegments(path))]
  /\ UNCHANGED <<routerVars, cmdVars, adapterVars, storeVars, lastRegister>>
  /\ UNCHANGED <<routerSequence, storeSequence, emitted, handlerKind, clientVars>>

NextPattern ==
  \E pattern \in SeqsUpTo(PatternSegments, MaxSegments),
     path \in SeqsUpTo(PathSegments, MaxSegments) : PathMatchesPattern(pattern, path)

SpecPattern == Init /\ [][NextPattern]_vars

\* ------------------------------------------------------------------------
\* Specification of the hub's sequence numbers: the places where the router
\* and the store build a message with source hub.core, each drawing the
\* sequence from the counter of its own object
\* ------------------------------------------------------------------------
\* SequenceCounter.next(): the value returned and the value kept
SequenceNext(value) == [returned |-> value, value |-> value + 1]

\* a message of the hub as far as its origin goes
HubMessage(type, what, sequence) ==
  [type |-> type, what |-> what, source |-> HubSource, sequence |-> sequence]

\* the router builds a message: createAck of routeCommand (received), of
\* handleSubscribe and handleUnsubscribe (completed), createError of
\* sendError, the snapshot_complete event of handleSubscribe
RouterBuilds(type, what) ==
  /\ Len(emitted) < MaxEmitted
  /\ emitted' = Append(emitted,
                       HubMessage(type, what, SequenceNext(routerSequence).returned))
  /\ routerSequence' = SequenceNext(routerSequence).value
  /\ UNCHANGED <<routerVars, cmdVars, adapterVars, storeVars, lastRegister>>
  /\ UNCHANGED <<patternCall, storeSequence, handlerKind, clientVars>>

\* StateStore.entryToMessage, for a delta (handleStateDelta) or for an entry
\* of a snapshot (handleSubscribe)
StoreBuilds(what) ==
  /\ Len(emitted) < MaxEmitted
  /\ emitted' = Append(emitted,
                       HubMessage("state", what, SequenceNext(storeSequence).returned))
  /\ storeSequence' = SequenceNext(storeSequence).value
  /\ UNCHANGED <<routerVars, cmdVars, adapterVars, storeVars, lastRegister>>
  /\ UNCHANGED <<patternCall, routerSequence, handlerKind, clientVars>>

\* the messages the router builds
RouterMessages ==
  {<<"ack", "received">>, <<"ack", "completed">>, <<"error", "error">>,
   <<"event", "snapshot_complete">>}

NextSequence ==
  \/ \E m \in RouterMessages : RouterBuilds(m[1], m[2])
  \/ \E what \in {"delta", "snapshot"} : StoreBuilds(what)

SpecSequence == Init /\ [][NextSequence]_vars

\* ------------------------------------------------------------------------
\* Specification of the transport's clients: a client connects, subscribes
\* while it is connected and disconnects, beside a writer
\* ------------------------------------------------------------------------
NextClient ==
  \/ \E name \in ClientNames : ProcessHandshake(name)
  \/ \E name \in ClientNames, pl \in PatternLists, f \in Filters, sn \in BOOLEAN :
       Connected(name) /\ RouteSubscribe(ClientNamespace(name), pl, f, sn)
  \/ \E id \in CallIds : SubscribeResume(id)
  \/ \E name \in ClientNames : HandleDisconnect(name)
  \/ \E p \in Paths, v \in Values, o \in {"app.a"} : SetDirect(p, v, o)

SpecClient == InitFanOut /\ [][NextClient]_vars

\* ------------------------------------------------------------------------
\* Client transport: connections, handshakes and disconnects
\* ------------------------------------------------------------------------
\* the handshake names of the clients of the transport
TransportNames == {"b", "B", "c"}

\* generateUuidV7(): the n-th id minted
SessionId(n) == "sess-" \o ToString(n)

\* what the transport's actions leave alone
TransportFrame ==
  /\ UNCHANGED <<entries, globalVersion, idCounter, inbox, subCalls, evCalls,
                 opsLeft, subsLeft>>
  /\ UNCHANGED <<cmdVars, adapterVars, storeVars>>
  /\ UNCHANGED <<patternCall, routerSequence, storeSequence, emitted, handlerKind>>

\* ClientTransportServer.handleConnection: a connection comes in on socket w
HandleConnection(w) ==
  /\ conns[w].state = "none"
  /\ conns' = [conns EXCEPT ![w] =
                IF Cardinality(sessions) >= maxClients
                THEN [state |-> "closed", code |-> 1013]
                ELSE [state |-> "pending", code |-> 0]]
  /\ UNCHANGED <<sessions, wsToSession, targets, sessionCount, subs, lastRegister>>
  /\ TransportFrame

\* handleFirstMessage with a handshake of this name: processHandshake stores
\* the session and the socket's mapping, then registers the target; when
\* registerTarget throws, the catch of handleFirstMessage closes the socket
\* with 4002 and the close handler is never attached
FirstMessage(w, name) ==
  LET session == [id |-> SessionId(sessionCount + 1),
                  namespace |-> ClientNamespace(name)]
      r == registerTarget(targets, session)
  IN /\ conns[w].state = "pending"
     /\ sessionCount' = sessionCount + 1
     /\ sessions' = sessions \cup {session}
     /\ wsToSession' = [wsToSession EXCEPT ![w] = session.id]
     /\ targets' = r.targets
     /\ lastRegister' = [target |-> session, threw |-> r.threw]
     /\ conns' = [conns EXCEPT ![w] =
                   IF r.threw THEN [state |-> "closed", code |-> 4002]
                   ELSE [state |-> "active", code |-> 0]]
     /\ UNCHANGED subs
     /\ TransportFrame

\* handleFirstMessage with a first message that is no handshake
ExpectedHandshake(w) ==
  /\ conns[w].state = "pending"
  /\ conns' = [conns EXCEPT ![w] = [state |-> "closed", code |-> 4001]]
  /\ UNCHANGED <<sessions, wsToSession, targets, sessionCount, subs, lastRegister>>
  /\ TransportFrame

\* the close event of socket w, closed by the client: handleDisconnect when
\* the handshake had attached it
SocketClosed(w) ==
  LET session == CHOOSE x \in sessions : x.id = wsToSession[w]
      target == targetsGet(targets, session.namespace)
  IN /\ conns[w].state \in {"pending", "active"}
     /\ conns' = [conns EXCEPT ![w] = [state |-> "closed", code |-> 1000]]
     /\ IF conns[w].state = "active"
        THEN /\ targets' = unregisterTarget(targets, session.namespace)
             /\ subs' = IF target = NoTarget THEN subs
                        ELSE unsubscribeClient(subs, target.id)
             /\ sessions' = sessions \ {session}
             /\ wsToSession' = [wsToSession EXCEPT ![w] = None]
        ELSE UNCHANGED <<targets, subs, sessions, wsToSession>>
     /\ UNCHANGED <<sessionCount, lastRegister>>
     /\ TransportFrame

InitTransport ==
  /\ InitRouter
  /\ InitCommands
  /\ InitAux
  /\ InitAdapter
  /\ opsLeft = 0
  /\ subsLeft = 0
  /\ cmdsLeft = 0
  /\ autoReconnect = TRUE
  /\ maxReconnectAttempts = 0

NextTransport ==
  \/ \E w \in Sockets : HandleConnection(w)
  \/ \E w \in Sockets, name \in TransportNames : FirstMessage(w, name)
  \/ \E w \in Sockets : ExpectedHandshake(w)
  \/ \E w \in Sockets : SocketClosed(w)

SpecTransport == InitTransport /\ [][NextTransport]_vars

\* ------------------------------------------------------------------------
\* Specification of the handlers of the fan-out: two components register a
\* handler each, subscribe, and a third party writes the state
\* ------------------------------------------------------------------------
InitHandlers ==
  /\ InitRouter
  /\ InitCommands
  /\ lastRegister = NoRegister
  /\ patternCall = NoPatternCall
  /\ routerSequence = 0
  /\ storeSequence = 0
  /\ emitted = <<>>
  /\ InitClients
  /\ handlerKind \in {h \in [TargetIds -> HandlerKinds] :
                        \A t \in TargetIds : h[t] # "ok" => \E d \in HandlerTargets : d.id = t}
  /\ InitAdapter
  /\ opsLeft = MaxFanOutOps
  /\ subsLeft = MaxFanOutSubscribes + 1
  /\ cmdsLeft = 0
  /\ autoReconnect = TRUE
  /\ maxReconnectAttempts = 0

NextHandlers ==
  \/ \E t \in HandlerTargets : Unbound(t) /\ RegisterTarget(t)
  \/ \E s \in Sources, pl \in PatternLists, f \in Filters :
       RouteSubscribe(s, pl, f, FALSE)
  \/ \E id \in CallIds : SubscribeResume(id)
  \/ \E p \in Paths, v \in Values : SetDirect(p, v, "companion")

SpecHandlers == InitHandlers /\ [][NextHandlers]_vars

\* ------------------------------------------------------------------------
\* Specification of the target table: components register and unregister
\* targets, some under a namespace another holds, while commands are routed
\* ------------------------------------------------------------------------
RegisterCandidates ==
  {[id |-> i, namespace |-> n] : i \in {"app.a", "sess-1"}, n \in {"app.a", "companion"}}

InitTargets ==
  /\ InitRouter
  /\ InitCommands
  /\ InitAux
  /\ InitAdapter
  /\ opsLeft = 0
  /\ subsLeft = 0
  /\ cmdsLeft = MaxTargetCommands
  /\ autoReconnect = TRUE
  /\ maxReconnectAttempts = 0

NextTargets ==
  \/ \E t \in RegisterCandidates : RegisterTarget(t)
  \/ \E n \in {"app.a", "companion"} : UnregisterTarget(n)
  \/ \E s \in CommandSources, t \in CommandTargets : RouteCommand(s, t, None)
  \/ \E id \in CallIds : CommandDispatch(id)
  \/ \E id \in CallIds, threw \in BOOLEAN : CommandReturn(id, threw)

SpecTargets == InitTargets /\ [][NextTargets]_vars

\* ------------------------------------------------------------------------
\* Specification of target resolution: the same router and targets, the
\* commands addressed to namespaces of one, two and three segments
\* ------------------------------------------------------------------------
ResolveTargets == {"companion", "companion.satellite", "companion.satellite.page"}

NextResolve ==
  \/ \E s \in CommandSources, t \in ResolveTargets : RouteCommand(s, t, None)
  \/ \E id \in CallIds : CommandDispatch(id)
  \/ \E id \in CallIds, threw \in BOOLEAN : CommandReturn(id, threw)

SpecResolve == InitRoute /\ [][NextResolve]_vars

\* ------------------------------------------------------------------------
\* Specification of the Companion adapter: the adapter on the router, its
\* sockets and timers, a subscriber to its paths and another writer
\* ------------------------------------------------------------------------
InitAdapterSpec ==
  /\ InitRouter
  /\ InitCommands
  /\ InitAux
  /\ InitAdapter
  /\ opsLeft = MaxAdapterOps
  /\ subsLeft = 1
  /\ cmdsLeft = 0
  /\ autoReconnect = TRUE
  /\ maxReconnectAttempts = 0

NextAdapter ==
  \/ Connect
  \/ Disconnect
  \/ \E i \in 1..MaxSockets : SocketOpen(i)
  \/ \E i \in 1..MaxSockets, failed \in BOOLEAN : SocketClose(i, failed)
  \/ ConnectionTimeout
  \/ ReconnectTimeout
  \/ Heartbeat
  \/ \E i \in 1..MaxSockets, v \in VariableValues : VariablesUpdate(i, v)
  \/ \E t \in DirectTargets : Unbound(t) /\ RegisterTarget(t)
  \/ \E s \in {"app.a"} : RouteSubscribe(s, <<"companion.**">>, "state", FALSE)
  \/ \E id \in CallIds : SubscribeResume(id)
  \/ \E p \in {"x.y"}, v \in {Num("1")}, o \in {"app.b"} : SetDirect(p, v, o)

SpecAdapter == InitAdapterSpec /\ [][NextAdapter]_vars

\* ------------------------------------------------------------------------
\* Specification of the bridge commands: the adapter attached to the router,
\* its socket opening and closing, and the commands its handler is called with
\* ------------------------------------------------------------------------
InitBridge ==
  /\ InitRouter
  /\ InitCommands
  /\ InitAux
  /\ InitAdapter
  /\ opsLeft = 1
  /\ subsLeft = 0
  /\ cmdsLeft = MaxBridgeCommands
  /\ autoReconnect = TRUE
  /\ maxReconnectAttempts = 0

NextBridge ==
  \/ \E t \in DirectTargets : Unbound(t) /\ RegisterTarget(t)
  \/ Connect
  \/ Disconnect
  \/ \E i \in 1..MaxSockets : SocketOpen(i)
  \/ \E i \in 1..MaxSockets, failed \in BOOLEAN : SocketClose(i, failed)
  \/ \E i \in 1..MaxSockets, args \in DeviceArgs : AddDevice(i, args)
  \/ \E action \in BridgeActions : \E params \in ParamsOf(action) :
       HandleBridgeMessage(action, params)

SpecBridge == InitBridge /\ [][NextBridge]_vars

\* the same adapter with sockets that stay open once opened, and no other
\* target on the router
NextAck ==
  \/ Connect
  \/ Disconnect
  \/ \E i \in 1..MaxSockets : SocketOpen(i)
  \/ \E i \in 1..MaxSockets, args \in DeviceArgs : AddDevice(i, args)
  \/ \E action \in BridgeActions : \E params \in ParamsOf(action) :
       HandleBridgeMessage(action, params)

SpecAck == InitBridge /\ [][NextAck]_vars

\* ------------------------------------------------------------------------
\* Specification of the reconnect attempts: the adapter configured with a
\* limit of attempts, or with none (0)
\* ------------------------------------------------------------------------
InitAttempts ==
  /\ InitRouter
  /\ InitCommands
  /\ InitAux
  /\ InitAdapter
  /\ opsLeft = 0
  /\ subsLeft = 0
  /\ cmdsLeft = 0
  /\ autoReconnect = TRUE
  /\ maxReconnectAttempts \in 0..MaxAttemptsLimit

NextAttempts ==
  \/ Connect
  \/ Disconnect
  \/ \E i \in 1..MaxSockets : SocketOpen(i)
  \/ \E i \in 1..MaxSockets, failed \in BOOLEAN : SocketClose(i, failed)
  \/ ConnectionTimeout
  \/ ReconnectTimeout
  \/ Heartbeat

SpecAttempts == InitAttempts /\ [][NextAttempts]_vars

\* ------------------------------------------------------------------------
\* Specification of the reconnect cycle: the adapter stays attached to the
\* router while its sockets open and close
\* ------------------------------------------------------------------------
NextReconnect ==
  \/ Connect
  \/ \E i \in 1..MaxSockets : SocketOpen(i)
  \/ \E i \in 1..MaxSockets, failed \in BOOLEAN : SocketClose(i, failed)
  \/ ConnectionTimeout
  \/ ReconnectTimeout
  \/ \E i \in 1..MaxSockets, v \in VariableValues : VariablesUpdate(i, v)
  \/ \E t \in DirectTargets : Unbound(t) /\ RegisterTarget(t)
  \/ \E s \in {"app.a"} : RouteSubscribe(s, <<"companion.**">>, "state", FALSE)
  \/ \E id \in CallIds : SubscribeResume(id)
  \/ \E p \in {"x.y"}, v \in {Num("1")}, o \in {"app.b"} : SetDirect(p, v, o)

SpecReconnect == InitAdapterSpec /\ [][NextReconnect]_vars

\* ------------------------------------------------------------------------
\* The state store with its listeners.  A store value st holds the entries,
\* the global version, the listeners, the listener calls made so far by the
\* call in progress (each with the ordinal of the write it reports) and, per
\* path, the version last emitted.
\* ------------------------------------------------------------------------
MirrorOwner == "hub.mirror"
StoreOwners == Sources
ObjXY == Obj("{x:1,y:2}")
ObjYX == Obj("{y:2,x:1}")
StoreValues == {Num("1"), ObjXY, ObjYX}
\* what a listener does with a delta: it records it; it records it and
\* throws; it records it and writes the delta's value to MirrorPath
ListenerKinds == {"records", "throws", "writes"}

StateStore ==
  [entries |-> entries, globalVersion |-> globalVersion, listeners |-> listeners,
   deliveries |-> <<>>, writes |-> 0, lastVersion |-> lastVersion]

\* the loop of notifyListeners after listener i of n returned or threw: the
\* catch lets it go on with the next listener
AfterListenerMutant(kind, i, n) == IF kind = "throws" THEN n + 1 ELSE i + 1
AfterListener(kind, i, n) == i + 1

RECURSIVE NotifyFrom(_, _, _, _)
\* StateStore.notifyListeners
notifyListeners(st, delta) ==
  NotifyFrom([st EXCEPT !.writes = @ + 1,
                        !.lastVersion[delta.path] = delta.entry.version],
             delta, st.writes + 1, 1)

\* StateStore.set with its listeners: the store after the call, and what
\* the call returned or that it threw
set(st, path, value, owner) ==
  LET r == StoreSet(st.entries, st.globalVersion, path, value, owner)
  IN IF r.outcome = "conflict"
     THEN [st |-> st, threw |-> TRUE, returned |-> <<>>]
     ELSE IF r.outcome = "unchanged"
     THEN [st |-> st, threw |-> FALSE, returned |-> <<>>]
     ELSE [st |-> notifyListeners([st EXCEPT !.entries = r.entries,
                                             !.globalVersion = r.globalVersion],
                                  r.delta),
           threw |-> FALSE, returned |-> <<r.delta>>]

\* the call of listener i with a delta; `found` is what the store holds at
\* the delta's path when the listener is called (no entry, or one)
ListenerCall(st, i, delta, write) ==
  LET heard == [st EXCEPT !.deliveries =
                  Append(@, [listener |-> i, delta |-> delta, write |-> write,
                             found |-> SelectSeq(st.entries,
                                                 LAMBDA e : e.path = delta.path)])]
  IN IF st.listeners[i] = "writes" /\ delta.path # MirrorPath
     THEN set(heard, MirrorPath, delta.entry.value, MirrorOwner).st
     ELSE heard

NotifyFrom(st, delta, write, i) ==
  IF i > Len(st.listeners) THEN st
  ELSE NotifyFrom(ListenerCall(st, i, delta, write), delta, write,
                  AfterListener(st.listeners[i], i, Len(st.listeners)))

RECURSIVE SetBulkFrom(_, _, _, _, _)
SetBulkFrom(st, updates, owner, i, deltas) ==
  IF i > Len(updates) THEN [st |-> st, threw |-> FALSE, returned |-> deltas]
  ELSE LET r == set(st, updates[i].path, updates[i].value, owner)
       IN IF r.threw THEN [st |-> r.st, threw |-> TRUE, returned |-> <<>>]
          ELSE SetBulkFrom(r.st, updates, owner, i + 1, deltas \o r.returned)

\* StateStore.setBulk: a set that throws ends the call, the sets before it
\* stay applied
setBulk(st, updates, owner) == SetBulkFrom(st, updates, owner, 1, <<>>)

\* Map.delete
MapDelete(es, path) == SelectSeq(es, LAMBDA e : e.path # path)

\* the delta of a removal: the entry with a null value and the next version
\* (`removed` is a history field of the deltas of the model: the program
\* tells a removal by the null value only)
RemovalDeltaMutant(entry) ==
  [path |-> entry.path, entry |-> [entry EXCEPT !.value = NullValue],
   previousVersion |-> entry.version, removed |-> TRUE]
RemovalDelta(entry) ==
  [path |-> entry.path,
   entry |-> [entry EXCEPT !.value = NullValue, !.version = @ + 1],
   previousVersion |-> entry.version, removed |-> TRUE]

\* StateStore.delete
delete(st, path, owner) ==
  IF ~has(st.entries, path)
  THEN [st |-> st, threw |-> FALSE, returned |-> <<>>]
  ELSE IF get(st.entries, path).owner # owner
  THEN [st |-> st, threw |-> TRUE, returned |-> <<>>]
  ELSE LET delta == RemovalDelta(get(st.entries, path))
       IN [st |-> notifyListeners(
                    [st EXCEPT !.entries = MapDelete(@, path),
                               !.globalVersion = @ + 1], delta),
           threw |-> FALSE, returned |-> <<delta>>]

\* the test of clearOwnerStale on an entry
FlipsFreshMutant(entry, owner) == entry.stale
FlipsFresh(entry, owner) == entry.owner = owner /\ entry.stale

\* the loops of markOwnerStale (stale = TRUE) and clearOwnerStale (stale =
\* FALSE) from entry i on, over the Map as it is when each entry is reached
RECURSIVE FlipFrom(_, _, _, _, _)
FlipFrom(st, owner, stale, i, deltas) ==
  IF i > Len(st.entries) THEN [st |-> st, threw |-> FALSE, returned |-> deltas]
  ELSE LET entry == st.entries[i]
           newEntry == [entry EXCEPT !.stale = stale, !.version = @ + 1]
           delta == [path |-> entry.path, entry |-> newEntry,
                     previousVersion |-> entry.version, removed |-> FALSE]
       IN IF (IF stale THEN FlipsStale(entry, owner) ELSE FlipsFresh(entry, owner))
          THEN FlipFrom(notifyListeners(
                          [st EXCEPT !.entries[i] = newEntry,
                                     !.globalVersion = @ + 1], delta),
                        owner, stale, i + 1, Append(deltas, delta))
          ELSE FlipFrom(st, owner, stale, i + 1, deltas)

\* StateStore.markOwnerStale with the store's listeners
markOwnerStaleStore(st, owner) == FlipFrom(st, owner, TRUE, 1, <<>>)

\* StateStore.clearOwnerStale
clearOwnerStale(st, owner) == FlipFrom(st, owner, FALSE, 1, <<>>)

\* the loop of deleteByOwner from entry i on: a removed entry's successor
\* takes its place
RECURSIVE DeleteFrom(_, _, _, _)
DeleteFrom(st, owner, i, deltas) ==
  IF i > Len(st.entries) THEN [st |-> st, threw |-> FALSE, returned |-> deltas]
  ELSE LET entry == st.entries[i]
           delta == RemovalDelta(entry)
       IN IF entry.owner = owner
          THEN DeleteFrom(notifyListeners(
                            [st EXCEPT !.entries = MapDelete(@, entry.path),
                                       !.globalVersion = @ + 1], delta),
                          owner, i, Append(deltas, delta))
          ELSE DeleteFrom(st, owner, i + 1, deltas)

\* StateStore.deleteByOwner
deleteByOwner(st, owner) == DeleteFrom(st, owner, 1, <<>>)

\* the loop of clear over the paths the Map had when the call began
RECURSIVE ClearFrom(_, _, _)
ClearFrom(st, paths, i) ==
  IF i > Len(paths) THEN st
  ELSE ClearFrom(notifyListeners(st, RemovalDelta(get(st.entries, paths[i]))),
                 paths, i + 1)

\* StateStore.clear: the listeners are told of every entry, then the Map is
\* emptied and the global version goes up by one
clear(st) ==
  LET told == ClearFrom(st, [i \in 1..Len(st.entries) |-> st.entries[i].path], 1)
  IN [st |-> [told EXCEPT !.entries = <<>>, !.globalVersion = @ + 1],
      threw |-> FALSE, returned |-> <<>>]

\* ------------------------------------------------------------------------
\* Actions: the calls on the store
\* ------------------------------------------------------------------------
\* the store becomes r.st and the call is recorded with the store it was
\* made on, what it returned and the number of writes it applied
StoreBecomes(call, r) ==
  /\ opsLeft > 0
  /\ opsLeft' = opsLeft - 1
  /\ entries' = r.st.entries
  /\ globalVersion' = r.st.globalVersion
  /\ deliveries' = r.st.deliveries
  /\ lastVersion' = r.st.lastVersion
  /\ lastCall' = call @@ [before |-> [entries |-> entries,
                                       globalVersion |-> globalVersion],
                           threw |-> r.threw, returned |-> r.returned,
                           writes |-> r.st.writes]
  /\ UNCHANGED <<targets, sessionCount, subs, idCounter, inbox, subCalls, evCalls,
                 subsLeft, listeners>>
  /\ UNCHANGED <<cmdVars, adapterVars, auxVars>>

Set(path, value, owner) ==
  \E r \in {set(StateStore, path, value, owner)} :
    StoreBecomes([op |-> "set", path |-> path, value |-> value, owner |-> owner], r)

SetBulk(updates, owner) ==
  \E r \in {setBulk(StateStore, updates, owner)} :
    StoreBecomes([op |-> "setBulk", updates |-> updates, owner |-> owner], r)

Delete(path, owner) ==
  \E r \in {delete(StateStore, path, owner)} :
    StoreBecomes([op |-> "delete", path |-> path, owner |-> owner], r)

MarkOwnerStale(owner) ==
  \E r \in {markOwnerStaleStore(StateStore, owner)} :
    StoreBecomes([op |-> "markOwnerStale", owner |-> owner], r)

ClearOwnerStale(owner) ==
  \E r \in {clearOwnerStale(StateStore, owner)} :
    StoreBecomes([op |-> "clearOwnerStale", owner |-> owner], r)

DeleteByOwner(owner) ==
  \E r \in {deleteByOwner(StateStore, owner)} :
    StoreBecomes([op |-> "deleteByOwner", owner |-> owner], r)

Clear ==
  \E r \in {clear(StateStore)} : StoreBecomes([op |-> "clear"], r)

\* ------------------------------------------------------------------------
\* Specification of the store on its own: a StateStore with the listeners
\* added to it, and the calls of its writers
\* ------------------------------------------------------------------------
ListenerLists ==
  {<<"throws", "records">>, <<"writes", "records">>, <<"records", "writes">>}

BulkOwners == {"app.a"}
ScanOwners == {"app.a", MirrorOwner}

BulkUpdates ==
  {<<[path |-> "x.y", value |-> Num("1")], [path |-> "x.z", value |-> ObjXY]>>,
   <<[path |-> "x.z", value |-> ObjYX], [path |-> "x.y", value |-> Num("1")]>>}

InitStore ==
  /\ entries = <<>>
  /\ globalVersion = 0
  /\ targets = <<>>
  /\ sessionCount = 0
  /\ subs = <<>>
  /\ idCounter = 0
  /\ inbox = [t \in TargetIds |-> <<>>]
  /\ subCalls = <<>>
  /\ evCalls = <<>>
  /\ listeners \in ListenerLists
  /\ deliveries = <<>>
  /\ lastCall = NoCall
  /\ lastVersion = [p \in StorePaths |-> NullVersion]
  /\ InitCommands
  /\ InitAux
  /\ InitAdapter
  /\ opsLeft = MaxStoreOps
  /\ subsLeft = 0
  /\ cmdsLeft = 0
  /\ autoReconnect = TRUE
  /\ maxReconnectAttempts = 0

NextStore ==
  \/ \E p \in Paths, v \in StoreValues, o \in StoreOwners : Set(p, v, o)
  \/ \E u \in BulkUpdates, o \in BulkOwners : SetBulk(u, o)
  \/ \E p \in Paths, o \in StoreOwners : Delete(p, o)
  \/ \E o \in ScanOwners : MarkOwnerStale(o)
  \/ \E o \in ScanOwners : ClearOwnerStale(o)
  \/ \E o \in ScanOwners : DeleteByOwner(o)
  \/ Clear

SpecStore == InitStore /\ [][NextStore]_vars

\* ------------------------------------------------------------------------
\* Claims about the router, the store and the subscriptions

\* the entry at path is held by another owner than source
OwnedByOther(path, source) ==
  \E i \in 1..Len(entries) : entries[i].path = path /\ entries[i].owner # source

ConflictError(source, path) ==
  [type |-> "error", source |-> HubSource, target |-> source, path |-> path,
   code |-> "STATE_CONFLICT"]

\* C1: a write to an existing path by a source other than its owner is
\* rejected: the entries and the global version are unchanged and no
\* listener gets a delta; through route() the writer's target gets an error
\* with code STATE_CONFLICT, and nothing else is delivered.
C1_ConflictRejected ==
  [][\A s \in Sources, p \in Paths, v \in Values :
       OwnedByOther(p, s) =>
         /\ SetDirect(p, v, s) => UNCHANGED <<entries, globalVersion, inbox>>
         /\ RouteState(s, p, v) =>
              /\ UNCHANGED <<entries, globalVersion>>
              /\ \A t \in TargetIds :
                   inbox'[t] = IF targetsGet(targets, s).id = t
                               THEN Append(inbox[t], ConflictError(s, p))
                               ELSE inbox[t]]_vars

\* C1 witness: a target holds a STATE_CONFLICT error for a path that another
\* namespace owns
C1_Witness ==
  \E t \in TargetIds : \E j \in 1..Len(inbox[t]) :
    /\ inbox[t][j].type = "error"
    /\ inbox[t][j].code = "STATE_CONFLICT"
    /\ OwnedByOther(inbox[t][j].path, inbox[t][j].target)

\* C4 (as claimed): on every state delta on P with owner O, every client of
\* the client transport that is registered, holds a subscription made by a
\* subscribe message (clientId = its namespace) that admits state and matches
\* P, and whose namespace is not O, is handed a state message with the
\* delta's path, value and version.
C4_TransportClientGetsDelta ==
  [][\A p \in Paths :
       (/\ globalVersion' = globalVersion + 1
        /\ has(entries', p)
        /\ (~has(entries, p) \/ get(entries', p) # get(entries, p)))
       => \A i \in 1..Len(targets) : \A k \in 1..Len(subs) :
            (/\ IsSessionId(targets[i].id)
             /\ subs[k].clientId = targets[i].namespace
             /\ SubscriptionMatches(subs[k], p, "state")
             /\ targets[i].namespace # get(entries', p).owner)
            => \E j \in (Len(inbox[targets[i].id]) + 1)..Len(inbox'[targets[i].id]) :
                 LET m == inbox'[targets[i].id][j]
                 IN /\ m.type = "state"
                    /\ m.path = p
                    /\ m.value = get(entries', p).value
                    /\ m.version = get(entries', p).version]_vars

\* C5: no target whose namespace equals the owner of a state delta is handed
\* the state message of that delta, and no target whose namespace equals an
\* event's source is handed that event.
C5_NoSelfDelivery ==
  \A i \in 1..Len(targets) : \A j \in 1..Len(inbox[targets[i].id]) :
    LET m == inbox[targets[i].id][j]
    IN /\ (m.type = "state" /\ m.via = "delta") => m.owner # targets[i].namespace
       /\ m.type = "event" => m.source # targets[i].namespace

\* C5 witness: a registered target holds a subscription that admits state and
\* matches a path its own namespace wrote after the subscription was made
C5_Witness ==
  \E i \in 1..Len(targets) : \E k \in 1..Len(subs) : \E e \in 1..Len(entries) :
    /\ subs[k].clientId = targets[i].id
    /\ SubscriptionMatches(subs[k], entries[e].path, "state")
    /\ entries[e].owner = targets[i].namespace
    /\ subCalls[k].tgt = targets[i].id
    /\ ~ \E a \in 1..Len(subCalls[k].atSubscribe) :
           subCalls[k].atSubscribe[a] = entries[e]

\* the position of the snapshot_complete event of subscription id in a
\* target's messages, 0 when it is not there
CompletePos(ib, id) ==
  IF \E c \in 1..Len(ib) : ib[c] = CompleteEvent(id)
  THEN CHOOSE c \in 1..Len(ib) : ib[c] = CompleteEvent(id)
  ELSE 0

\* C6 (as claimed): once the snapshot of a subscription made with
\* snapshot=true is streamed, its target has the snapshot_complete event after
\* every snapshot message of the subscription and before every delta of a
\* write made after the (last) snapshot was taken.
C6_CompleteBeforeLaterDeltas ==
  \A id \in 1..Len(subCalls) :
    LET call == subCalls[id]
    IN (call.snapshot /\ call.pc \in {"completing", "done"}) =>
         LET ib == inbox[call.tgt]
             c == CompletePos(ib, id)
         IN /\ c > 0
            /\ \A j \in 1..Len(ib) :
                 /\ (ib[j].type = "state" /\ ib[j].via = "snapshot" /\ ib[j].sub = id)
                      => j < c
                 /\ (/\ ib[j].type = "state"
                     /\ ib[j].via = "delta"
                     /\ SubscriptionMatches(subs[id], ib[j].path, "state")
                     /\ ib[j].gv > call.snapGv)
                      => j > c

\* C7 (as claimed): a target is never handed a state message for a path with
\* a version lower than one it was handed before for that path.
C7_VersionsInWriteOrder ==
  \A t \in TargetIds : \A i, j \in 1..Len(inbox[t]) :
    (/\ i < j
     /\ inbox[t][i].type = "state"
     /\ inbox[t][j].type = "state"
     /\ inbox[t][i].path = inbox[t][j].path)
    => inbox[t][i].version <= inbox[t][j].version

\* C8 (as claimed): every snapshot message of a subscription carries an entry
\* as it was in the store when the subscribe was routed.
C8_SnapshotAsOfSubscribe ==
  \A t \in TargetIds : \A j \in 1..Len(inbox[t]) :
    LET m == inbox[t][j]
    IN (m.type = "state" /\ m.via = "snapshot") =>
         /\ has(subCalls[m.sub].atSubscribe, m.path)
         /\ get(subCalls[m.sub].atSubscribe, m.path).version = m.version


\* ------------------------------------------------------------------------
\* Claims about the commands
\* ------------------------------------------------------------------------
\* commands i and j carry the same idempotency key for the same target, and
\* j is routed within the TTL of i
SameKeyWithinTtl(i, j) ==
  /\ i < j
  /\ j <= Len(cmdCalls)
  /\ cmdCalls[i].message.idempotencyKey # None
  /\ cmdCalls[i].message.idempotencyKey = cmdCalls[j].message.idempotencyKey
  /\ cmdCalls[i].message.target = cmdCalls[j].message.target
  /\ cmdCalls[j].message.at - cmdCalls[i].message.at <= IdempotencyTtl

\* C2: of two commands carrying the same idempotency key routed within the
\* TTL, the target's handler is called with at most one, whatever the
\* interleaving: also when the second is routed while the handler called
\* with the first has not returned.
C2_HandlerInvokedAtMostOnce ==
  \A i, j \in 1..MaxCommands :
    SameKeyWithinTtl(i, j) => ~(Invoked(i) /\ Invoked(j))

\* the terminal acks routed for the commands of key k that were routed at
\* most a TTL ago
CompletedAcks(k) ==
  {ackLog[n] : n \in {m \in 1..Len(ackLog) :
      /\ cmdCalls[ackLog[m].commandId].message.idempotencyKey = k
      /\ now - cmdCalls[ackLog[m].commandId].message.at <= IdempotencyTtl}}

\* C3: when a command with key K has completed (its terminal ack was
\* routed) and a command with the same key is routed within the TTL by a
\* registered sender, that sender's handler is called with the terminal ack
\* of the first (same status, same commandId) and the target's handler is
\* not called again.
C3_CachedAckReturned ==
  [][\A s \in CommandSources, t \in CommandTargets, k \in IdempotencyKeys :
       (/\ RouteCommand(s, t, k)
        /\ CompletedAcks(k) # {}
        /\ targetsGet(targets, s) # NoTarget)
       => /\ \E a \in CompletedAcks(k) :
               inbox'[targetsGet(targets, s).id] =
                 Append(inbox[targetsGet(targets, s).id], a)
          /\ \A h \in CommandHandlers : inbox'[h.id] = inbox[h.id]]_vars


\* ------------------------------------------------------------------------
\* Claims about the Companion adapter
\* ------------------------------------------------------------------------
\* the state messages of the entries of es that markOwnerStale flips, as
\* target t is handed them
RECURSIVE FlipMessages(_, _, _)
FlipMessages(es, gv, t) ==
  IF es = <<>> THEN <<>>
  ELSE IF Head(es).owner = AdapterNamespace /\ ~Head(es).stale
  THEN (IF /\ SeqHas(getSubscribedClients(subs, Head(es).path, "state"), t.id)
           /\ t.namespace # AdapterNamespace
        THEN <<entryToMessage(Head(es).path,
                              [Head(es) EXCEPT !.stale = TRUE, !.version = @ + 1],
                              "delta", gv + 1, 0)>>
        ELSE <<>>) \o FlipMessages(Tail(es), gv + 1, t)
  ELSE FlipMessages(Tail(es), gv, t)

\* every registered target is handed one state message per flipped entry
\* that its subscriptions match, and nothing else
OneDeltaPerFlip ==
  \A n \in 1..Len(targets) :
    inbox'[targets[n].id] =
      inbox[targets[n].id] \o FlipMessages(entries, globalVersion, targets[n])

\* C9 (as claimed): when a socket closes while the adapter is CONNECTED,
\* every entry owned by companion.satellite stays with its value, is stale
\* and has its version increased by exactly one; the entries of other owners
\* are unchanged and one delta per flipped entry is emitted.
C9_EveryOwnedVersionBumped ==
  [][\A i \in 1..MaxSockets, failed \in BOOLEAN :
       (/\ connectionState = "connected"
        /\ i <= Len(socks)
        /\ socks'[i] # socks[i]
        /\ SocketClose(i, failed)) =>
         /\ Len(entries') = Len(entries)
         /\ \A n \in 1..Len(entries) :
              IF entries[n].owner = AdapterNamespace
              THEN entries'[n] = [entries[n] EXCEPT !.stale = TRUE, !.version = @ + 1]
              ELSE entries'[n] = entries[n]
         /\ OneDeltaPerFlip]_vars

\* C9 (amended): when a socket closes while the adapter is CONNECTED, every
\* entry owned by companion.satellite stays with its value and is stale; the
\* version of each one that was not stale already is increased by exactly
\* one, and one that was stale already keeps its version; the entries of
\* other owners are unchanged and one delta per flipped entry is emitted.
C9_StaleOnClose ==
  [][\A i \in 1..MaxSockets, failed \in BOOLEAN :
       (/\ connectionState = "connected"
        /\ i <= Len(socks)
        /\ socks'[i] # socks[i]
        /\ SocketClose(i, failed)) =>
         /\ Len(entries') = Len(entries)
         /\ \A n \in 1..Len(entries) :
              IF entries[n].owner = AdapterNamespace /\ ~entries[n].stale
              THEN entries'[n] = [entries[n] EXCEPT !.stale = TRUE, !.version = @ + 1]
              ELSE entries'[n] = entries[n]
         /\ \A n \in 1..Len(entries) :
              entries[n].owner = AdapterNamespace => entries'[n].stale
         /\ OneDeltaPerFlip]_vars

\* C9 witness: a close handled while CONNECTED (the reconnect is scheduled)
\* has left a variable stale that was stale before it (its version is 2, and
\* the adapter connected twice), and a subscriber holds the delta of the
\* flip of an entry published on the second connection
C9_Witness ==
  /\ adapterEvents = <<"disconnected", "disconnected", "reconnecting">>
  /\ has(entries, VariablePath)
  /\ get(entries, VariablePath).stale
  /\ get(entries, VariablePath).version = 2
  /\ has(entries, LastConnectedPath)
  /\ get(entries, LastConnectedPath).value = Timestamp(2)
  /\ get(entries, LastConnectedPath).stale
  /\ \E t \in TargetIds : \E j \in 1..Len(inbox[t]) :
       /\ inbox[t][j].type = "state"
       /\ inbox[t][j].stale
       /\ inbox[t][j].value = Timestamp(2)

\* C10 (as claimed): once a socket has opened again after a disconnect that
\* marked the adapter's entries stale, every path the adapter publishes has
\* stale=false when the publishing call returns, also when the value
\* published equals the one held before.
C10_RepublishedIsFresh ==
  [][/\ \A i \in 1..MaxSockets :
          (router /\ i <= Len(socks) /\ socks'[i] # socks[i] /\ SocketOpen(i)) =>
            \A p \in {ConnectionStatePath, LastConnectedPath, LastErrorPath} :
              has(entries', p) /\ ~get(entries', p).stale
     /\ \A i \in 1..MaxSockets, v \in VariableValues :
          (router /\ opsLeft' # opsLeft /\ VariablesUpdate(i, v)) =>
            has(entries', VariablePath) /\ ~get(entries', VariablePath).stale]_vars

\* ------------------------------------------------------------------------
\* Claims about the state store
\* ------------------------------------------------------------------------
\* the key/value pairs of an object literal
Properties(v) ==
  CASE v.rep = "{x:1,y:2}" -> {<<"x", "1">>, <<"y", "2">>}
    [] v.rep = "{y:2,x:1}" -> {<<"x", "1">>, <<"y", "2">>}
    [] OTHER -> {}

\* structural equality of two values: the same primitive, or objects with
\* the same keys and values
StructurallyEqual(v, w) ==
  /\ v.kind = w.kind
  /\ IF v.kind = "object" THEN Properties(v) = Properties(w) ELSE v.rep = w.rep

\* the latest call on the store was op and did not throw
Returned(op) == lastCall.op = op /\ ~lastCall.threw

\* C11: after a set(P, v, O) that the store permits, from any store state
\* (also one where the entry at P is stale), get(P) is an entry whose value is
\* structurally equal to v, whose owner is O and whose stale flag is false.
C11_SetThenGet ==
  Returned("set") =>
    /\ has(entries, lastCall.path)
    /\ StructurallyEqual(get(entries, lastCall.path).value, lastCall.value)
    /\ get(entries, lastCall.path).owner = lastCall.owner
    /\ ~get(entries, lastCall.path).stale

\* C12: for every path, over any sequence of set, setBulk, delete,
\* markOwnerStale, clearOwnerStale, deleteByOwner and clear, the version of
\* the entry at the path is at least 1, the versions observed for the path
\* (stored or emitted in a delta) never decrease, and a call that changes or
\* removes an existing entry raises its version by exactly one.
C12_VersionsNeverDecrease ==
  [][/\ \A i \in 1..Len(entries') : entries'[i].version >= 1
     /\ \A p \in StorePaths : lastVersion'[p] >= lastVersion[p]
     /\ \A p \in Paths :
          (/\ has(entries, p)
           /\ (~has(entries', p) \/ get(entries', p) # get(entries, p)))
          => lastVersion'[p] = get(entries, p).version + 1]_vars

\* the latest call was a set by the owner of an existing entry with a value
\* structurally equal to the stored one
SetOfEqualValue ==
  /\ lastCall.op = "set"
  /\ has(lastCall.before.entries, lastCall.path)
  /\ get(lastCall.before.entries, lastCall.path).owner = lastCall.owner
  /\ StructurallyEqual(get(lastCall.before.entries, lastCall.path).value,
                       lastCall.value)

\* C13: a set by the owner with a value structurally equal to the stored
\* value is a no-op: it returns null, leaves the entry's version and the
\* global version unchanged, and no listener is called.
C13_EqualValueIsNoOp ==
  SetOfEqualValue =>
    /\ ~lastCall.threw
    /\ lastCall.returned = <<>>
    /\ entries = lastCall.before.entries
    /\ globalVersion = lastCall.before.globalVersion
    /\ deliveries = <<>>

\* the calls of listener l before call k of the latest store call that
\* reported a write to the same path
EarlierForPath(k) ==
  {j \in 1..(k - 1) : /\ deliveries[j].listener = deliveries[k].listener
                      /\ deliveries[j].delta.path = deliveries[k].delta.path}

\* C14: of every delta a listener is called with, previousVersion is null
\* exactly when the path did not exist before the write, and otherwise
\* entry.version = previousVersion + 1, where previousVersion is a version
\* the path had and the listener knows of (the stored one when the call
\* began, or one a delta of this call gave it): no version of a path is
\* skipped.
C14_DeltaVersionsContiguous ==
  \A k \in 1..Len(deliveries) :
    LET d == deliveries[k].delta
        before == lastCall.before.entries
    IN /\ d.previousVersion # NullPreviousVersion
            => d.entry.version = d.previousVersion + 1
       /\ d.previousVersion = NullPreviousVersion => d.entry.version = 1
       /\ d.previousVersion = NullPreviousVersion
            <=> (~has(before, d.path) /\ EarlierForPath(k) = {})
       /\ d.previousVersion # NullPreviousVersion
            => d.previousVersion \in
                 {deliveries[j].delta.entry.version : j \in EarlierForPath(k)}
                   \cup (IF has(before, d.path)
                         THEN {get(before, d.path).version} ELSE {})

\* a listener was called with the delta of a creation and with the delta of
\* a removal or change of an entry that existed
C14_Witness ==
  /\ \E k \in 1..Len(deliveries) : deliveries[k].delta.previousVersion = NullPreviousVersion
  /\ \E k \in 1..Len(deliveries) :
       /\ deliveries[k].delta.previousVersion # NullPreviousVersion
       /\ EarlierForPath(k) = {}
  /\ \E k \in 1..Len(deliveries) : EarlierForPath(k) # {}

\* the listener calls of the latest store call that reported write w
CallsForWrite(w) == {k \in 1..Len(deliveries) : deliveries[k].write = w}

\* C15: every delta (of set, delete, the staleness flips, deleteByOwner and
\* clear) is handed to every registered listener, in the order the listeners
\* were added; a listener that throws neither stops the calls of the
\* listeners after it nor undoes the write (the store keeps the new entry and
\* version).
C15_EveryListenerInOrder ==
  lastCall # NoCall =>
    /\ \A w \in 1..lastCall.writes :
         /\ {deliveries[k].listener : k \in CallsForWrite(w)} = 1..Len(listeners)
         /\ \A j, k \in CallsForWrite(w) :
              /\ deliveries[j].delta = deliveries[k].delta
              /\ j < k => deliveries[j].listener < deliveries[k].listener
    /\ \A i \in 1..Len(lastCall.returned) :
         \E k \in 1..Len(deliveries) : deliveries[k].delta = lastCall.returned[i]
    /\ lastCall.op = "clear" =>
         \A i \in 1..Len(lastCall.before.entries) :
           /\ ~has(entries, lastCall.before.entries[i].path)
           /\ \E k \in 1..Len(deliveries) :
                /\ deliveries[k].delta.path = lastCall.before.entries[i].path
                /\ deliveries[k].delta.entry.value = NullValue
    /\ (lastCall.op = "set" /\ lastCall.returned # <<>>) =>
         /\ has(entries, lastCall.path)
         /\ get(entries, lastCall.path) = lastCall.returned[1].entry
    /\ lastCall.op \in {"markOwnerStale", "clearOwnerStale"} =>
         \A i \in 1..Len(lastCall.returned) :
           get(entries, lastCall.returned[i].path) = lastCall.returned[i].entry
    /\ lastCall.op \in {"delete", "deleteByOwner"} =>
         \A i \in 1..Len(lastCall.returned) :
           ~has(entries, lastCall.returned[i].path)

\* the first listener throws and the latest call handed the listeners two
\* deltas or more
C15_Witness ==
  /\ listeners[1] = "throws"
  /\ Len(listeners) > 1
  /\ lastCall # NoCall
  /\ lastCall.writes > 1
  /\ Len(deliveries) = lastCall.writes * Len(listeners)

\* C16: each listener is called with the deltas in the order in which their
\* writes were applied to the store, also when a listener writes to the
\* store while it handles a delta and two or more listeners are registered.
C16_ListenerSeesWriteOrder ==
  \A j, k \in 1..Len(deliveries) :
    (j < k /\ deliveries[j].listener = deliveries[k].listener)
    => deliveries[j].write <= deliveries[k].write

\* the latest call was markOwnerStale or clearOwnerStale, and the stale flag
\* it sets
FlipCall == lastCall.op \in {"markOwnerStale", "clearOwnerStale"}
FlipTo == lastCall.op = "markOwnerStale"

\* the entries the latest flip call found owned by its owner with the other
\* flag, in the Map's order
ToFlip ==
  SelectSeq(lastCall.before.entries,
            LAMBDA e : e.owner = lastCall.owner /\ e.stale # FlipTo)

Flipped(e) == [e EXCEPT !.stale = FlipTo, !.version = @ + 1]

\* C17: markOwnerStale(O) and clearOwnerStale(O) flip the stale flag only on
\* the entries owned by O whose flag differs, bump the version of each such
\* entry and the global version once per flip and return one delta per flip;
\* the same call made again at once returns no delta and changes no version;
\* the entries of other owners are not touched (a listener's own write to
\* MirrorPath is a set of its own, not part of the call).
C17_StaleFlipsScopedIdempotent ==
  FlipCall =>
    /\ ~lastCall.threw
    /\ Len(lastCall.returned) = Len(ToFlip)
    /\ \A i \in 1..Len(ToFlip) :
         /\ lastCall.returned[i] = [path |-> ToFlip[i].path,
                                    entry |-> Flipped(ToFlip[i]),
                                    previousVersion |-> ToFlip[i].version,
                                    removed |-> FALSE]
         /\ get(entries, ToFlip[i].path) = Flipped(ToFlip[i])
    /\ \A i \in 1..Len(lastCall.before.entries) :
         LET e == lastCall.before.entries[i]
         IN (/\ ~(e.owner = lastCall.owner /\ e.stale # FlipTo)
             /\ ~(e.path = MirrorPath /\ lastCall.owner # MirrorOwner))
            => has(entries, e.path) /\ get(entries, e.path) = e
    /\ globalVersion = lastCall.before.globalVersion + lastCall.writes
    /\ Cardinality({deliveries[k].write : k \in
                      {j \in 1..Len(deliveries) :
                         deliveries[j].delta.path # MirrorPath
                           \/ lastCall.owner = MirrorOwner}})
         = Len(ToFlip)
    /\ LET again == FlipFrom(StateStore, lastCall.owner, FlipTo, 1, <<>>)
       IN /\ again.returned = <<>>
          /\ again.st.entries = entries
          /\ again.st.globalVersion = globalVersion

\* a flip call found an entry to flip beside an entry of another owner
C17_Witness ==
  /\ FlipCall
  /\ ToFlip # <<>>
  /\ \E i \in 1..Len(lastCall.before.entries) :
       /\ lastCall.before.entries[i].owner # lastCall.owner
       /\ lastCall.before.entries[i].path \in Paths

\* ------------------------------------------------------------------------
\* Claims about the dispatch of commands
\* ------------------------------------------------------------------------
\* message n of inbox ib is an ack of command id with a terminal status
IsTerminalAck(ib, n, id) ==
  /\ ib[n].type = "ack"
  /\ ib[n].commandId = id
  /\ ib[n].status # "received"

\* C18: for every command dispatched to a target that was found, the handler
\* of the command's source is called with the ack of status received before
\* it is called with a terminal ack (completed, failed, timeout, rejected) of
\* the same commandId, also when the target routes the terminal ack from
\* inside its handler.
C18_ReceivedBeforeTerminal ==
  \A id \in 1..Len(cmdCalls) :
    LET c == cmdCalls[id]
        ib == inbox[c.sourceTarget.id]
    IN (c.sourceTarget # NoTarget /\ (Invoked(id) \/ c.pc = "received"))
       => \E m \in 1..Len(ib) :
            /\ ib[m] = ReceivedAck(c.message)
            /\ \A n \in 1..Len(ib) : IsTerminalAck(ib, n, id) => m < n

\* the terminal ack of a command reached its source while the target's
\* handler had not returned
C18_Witness ==
  \E id \in 1..Len(cmdCalls) :
    /\ cmdCalls[id].pc = "handling"
    /\ cmdCalls[id].sourceTarget # NoTarget
    /\ \E n \in 1..Len(inbox[cmdCalls[id].sourceTarget.id]) :
         IsTerminalAck(inbox[cmdCalls[id].sourceTarget.id], n, id)

\* the target was called with command id, has routed no terminal ack for
\* it, and the command's ttl has run out
TtlExpired(id) ==
  /\ Invoked(id)
  /\ ~Acked(id)
  /\ now - cmdCalls[id].message.at > cmdCalls[id].message.ttl

\* C19: when a command carrying a ttl was dispatched to a target that
\* produces no terminal ack, then once the ttl has run out the router has
\* called the handler of the command's source with an ack of status timeout,
\* and the command is not pending.
C19_TimeoutAckDelivered ==
  \A id \in 1..Len(cmdCalls) :
    (TtlExpired(id) /\ cmdCalls[id].sourceTarget # NoTarget)
    => /\ \E n \in 1..Len(inbox[cmdCalls[id].sourceTarget.id]) :
            /\ IsTerminalAck(inbox[cmdCalls[id].sourceTarget.id], n, id)
            /\ inbox[cmdCalls[id].sourceTarget.id][n].status = "timeout"
       /\ id \notin pendingCommands

\* a namespace and its dot-trimmed prefixes
RECURSIVE PrefixesOf(_)
PrefixesOf(namespace) ==
  {namespace} \cup (IF NamespacePrefix(namespace) = None THEN {}
                    ELSE PrefixesOf(NamespacePrefix(namespace)))

\* routeCommand is called with a command of a registered source to a
\* namespace none of whose prefixes a target is registered under
RoutesToUnknown(s, t, k) ==
  /\ cmdsLeft' # cmdsLeft
  /\ RouteCommand(s, t, k)
  /\ \A i \in 1..Len(targets) : targets[i].namespace \notin PrefixesOf(t)
  /\ \E i \in 1..Len(targets) : targets[i].namespace = s

\* the source's handler is called with an UNKNOWN_TARGET error and no other
\* handler is called, and the idempotency cache stays as it is
OnlyUnknownTargetError(s, t, k) ==
  /\ inbox' = [inbox EXCEPT ![targetsGet(targets, s).id] =
                 Append(@, ErrorMessage(cmdCalls'[Len(cmdCalls')].message,
                                        "UNKNOWN_TARGET"))]
  /\ idempotencyCache' = idempotencyCache

\* C20 as stated: routing a command whose target namespace resolves to no
\* registered target (no exact match, no dot-trimmed prefix) calls the
\* handler of the command's source with an error of code UNKNOWN_TARGET,
\* calls no target handler, sends no received ack and leaves the idempotency
\* cache unchanged.
C20_UnknownTargetError ==
  [][\A s \in CommandSources, t \in DispatchTargets, k \in IdempotencyKeys \cup {None} :
       RoutesToUnknown(s, t, k) => OnlyUnknownTargetError(s, t, k)]_vars

\* C20 as amended: the same of a command whose idempotency key has no entry
\* in the cache (a command whose key is cached returns at the idempotency
\* check, before the target is looked up).
C20_UnknownTargetErrorUncached ==
  [][\A s \in CommandSources, t \in DispatchTargets, k \in IdempotencyKeys \cup {None} :
       (RoutesToUnknown(s, t, k) /\ ~CacheHit(idempotencyCache, k))
       => OnlyUnknownTargetError(s, t, k)]_vars

\* a command to a namespace with no target was answered with the error while
\* another command's key sits in the cache
C20_Witness ==
  /\ \E k \in IdempotencyKeys : idempotencyCache[k] # NoCacheEntry
  /\ \E id \in 1..Len(cmdCalls) :
       /\ cmdCalls[id].target = NoTarget
       /\ cmdCalls[id].sourceTarget # NoTarget
       /\ \E n \in 1..Len(inbox[cmdCalls[id].sourceTarget.id]) :
            inbox[cmdCalls[id].sourceTarget.id][n] =
              ErrorMessage(cmdCalls[id].message, "UNKNOWN_TARGET")

\* ------------------------------------------------------------------------
\* Claims about target resolution and registration
\* ------------------------------------------------------------------------
\* the namespaces among a namespace and its dot-trimmed prefixes that a target
\* is registered under
BoundPrefixes(tg, namespace) ==
  {p \in PrefixesOf(namespace) : \E i \in 1..Len(tg) : tg[i].namespace = p}

\* the target registered under the longest of them (the one all the others
\* are prefixes of), NoTarget when there is none
Resolved(tg, namespace) ==
  IF BoundPrefixes(tg, namespace) = {} THEN NoTarget
  ELSE LET longest == CHOOSE p \in BoundPrefixes(tg, namespace) :
                        \A q \in BoundPrefixes(tg, namespace) : q \in PrefixesOf(p)
       IN CHOOSE t \in {tg[i] : i \in 1..Len(tg)} : t.namespace = longest

\* C21: the target a command is resolved to is the one registered under the
\* command's exact target namespace if there is one, otherwise the one
\* registered under the longest dot-segment prefix of it, otherwise none; the
\* command is handed to the handler of that target and of no other.
C21_TargetResolution ==
  \A id \in 1..Len(cmdCalls) :
    LET c == cmdCalls[id]
        expected == Resolved(targets, c.message.target)
    IN /\ c.target = expected
       /\ \A t \in TargetIds :
            (\E n \in 1..Len(inbox[t]) : inbox[t][n] = c.message)
            => (expected # NoTarget /\ t = expected.id)

\* commands were delivered by prefix: one for companion.satellite.page to the
\* target at companion.satellite though one is registered at companion too,
\* or one for companion.satellite to the target at companion
C21_Witness ==
  \E id \in 1..Len(cmdCalls) :
    /\ Invoked(id)
    /\ \/ /\ cmdCalls[id].message.target = "companion.satellite.page"
          /\ cmdCalls[id].target.namespace = "companion.satellite"
          /\ targetsGet(targets, "companion") # NoTarget
       \/ /\ cmdCalls[id].message.target = "companion.satellite"
          /\ cmdCalls[id].target.namespace = "companion"

\* C22: at every moment at most one target is bound to a namespace, and a
\* registerTarget call for a namespace that is bound throws and leaves the
\* target table as it was, the target bound before still bound.
C22_OneTargetPerNamespace ==
  /\ [](\A i, j \in 1..Len(targets) :
          targets[i].namespace = targets[j].namespace => i = j)
  /\ [][\A t \in RegisterCandidates :
          (RegisterTarget(t) /\ ~Unbound(t))
          => (lastRegister'.threw /\ targets' = targets)]_vars

\* a registerTarget call for a bound namespace threw, and the target that
\* was bound is the one found for the namespace and has been handed a command
C22_Witness ==
  /\ lastRegister.threw
  /\ targetsGet(targets, lastRegister.target.namespace) # NoTarget
  /\ targetsGet(targets, lastRegister.target.namespace).id # lastRegister.target.id
  /\ \E id \in 1..Len(cmdCalls) :
       /\ Invoked(id)
       /\ cmdCalls[id].target = targetsGet(targets, lastRegister.target.namespace)

\* the transport minted a session and the target of its latest session is
\* not registered: the client has disconnected
Disconnected ==
  /\ sessionCount > 0
  /\ findTargetById(targets, SessionIds[sessionCount]) = NoTarget

\* C23: after a client has disconnected (handleDisconnect has called
\* unregisterTarget for its namespace) the subscription manager holds no
\* subscription the client created with its subscribe messages.
C23_NoSubscriptionOutlivesClient ==
  Disconnected
  => \A k \in 1..Len(subs) :
       \A name \in ClientNames : subs[k].clientId # ClientNamespace(name)

\* ------------------------------------------------------------------------
\* Claims about the adapter's reconnection
\* ------------------------------------------------------------------------
\* the adapter is attached to the router (connect was called, disconnect was
\* not), is DISCONNECTED or in ERROR, has no reconnect timer armed and no
\* socket an event can still come from: nothing will start a connection
\* attempt
RestsDisconnected ==
  /\ router
  /\ connectionState \in {"disconnected", "error"}
  /\ ~reconnectTimer
  /\ \A i \in 1..Len(socks) : socks[i] = "closed"

\* C24: with autoReconnect on and maxReconnectAttempts = 0, and disconnect()
\* not called, the adapter left in DISCONNECTED or ERROR by a socket close or
\* a failed connection attempt starts another attempt: it never rests in
\* DISCONNECTED or ERROR with no reconnect timer armed.
C24_NeverRestsDisconnected ==
  (autoReconnect /\ maxReconnectAttempts = 0) => ~RestsDisconnected

\* a step in which scheduleReconnect is called: the close of a socket while
\* CONNECTED, or the connection timeout while CONNECTING
ReconnectRequested ==
  \/ /\ connectionState = "connected"
     /\ \E i \in 1..MaxSockets, failed \in BOOLEAN : SocketClose(i, failed)
  \/ /\ connectionState = "connecting"
     /\ ConnectionTimeout

\* C25: with maxReconnectAttempts = N > 0 the counter reconnectAttempts never
\* exceeds N, and a reconnect requested while the counter equals N moves the
\* adapter to ERROR, arms no reconnect timer and leaves the counter; with
\* N = 0 no request is refused, each one that finds no timer armed counts
\* one more attempt and arms the timer; every socket open resets the counter
\* to 0.
C25_AttemptsCapped ==
  /\ [](maxReconnectAttempts > 0 => reconnectAttempts <= maxReconnectAttempts)
  /\ [][(/\ ReconnectRequested
          /\ maxReconnectAttempts > 0
          /\ reconnectAttempts = maxReconnectAttempts)
         => (/\ connectionState' = "error"
             /\ reconnectTimer' => reconnectTimer
             /\ reconnectAttempts' = reconnectAttempts)]_vars
  /\ [][(ReconnectRequested /\ maxReconnectAttempts = 0 /\ ~reconnectTimer)
         => (reconnectTimer' /\ reconnectAttempts' = reconnectAttempts + 1)]_vars
  /\ [][(\E i \in 1..MaxSockets : SocketOpen(i)) => reconnectAttempts' = 0]_vars

\* the adapter stopped at its limit: a request at the cap left it in ERROR
\* with no timer
C25_Witness ==
  /\ maxReconnectAttempts > 0
  /\ reconnectAttempts = maxReconnectAttempts
  /\ connectionState = "error"
  /\ lastError = Str("Max reconnect attempts reached")
  /\ ~reconnectTimer

\* ------------------------------------------------------------------------
\* Claims about pattern matching
\* ------------------------------------------------------------------------
\* the path matches the pattern segment by segment: a literal segment
\* matches itself, `*` one segment, `**` any run of zero or more segments
RECURSIVE MatchesSegmentWise(_, _)
MatchesSegmentWise(pattern, path) ==
  IF pattern = <<>> THEN path = <<>>
  ELSE IF Head(pattern) = "**"
  THEN \E n \in 0..Len(path) :
         MatchesSegmentWise(Tail(pattern), SubSeq(path, n + 1, Len(path)))
  ELSE /\ path # <<>>
       /\ Head(pattern) = "*" \/ Head(pattern) = Head(path)
       /\ MatchesSegmentWise(Tail(pattern), Tail(path))

\* C26: for every pattern and path of dot-separated segments,
\* patternToRegex(pattern).test(path) is true exactly when the path matches
\* the pattern segment-wise, a literal matching itself, `*` exactly one
\* segment and `**` any run of zero or more whole segments.
C26_RegexMatchesSegmentWise ==
  patternCall.op = "pathMatchesPattern"
  => patternCall.result = MatchesSegmentWise(patternCall.pattern, patternCall.path)

\* ------------------------------------------------------------------------
\* Claims about the hub's sequence numbers
\* ------------------------------------------------------------------------
\* C27: the messages the hub originates with source hub.core (received and
\* completed acks, errors, snapshot and delta state messages,
\* snapshot_complete events) have strictly increasing sequence numbers in
\* the order they were built, so no two share a sequence number.
C27_HubSequenceIncreasing ==
  \A i, j \in 1..Len(emitted) :
    (i < j /\ emitted[i].source = HubSource /\ emitted[j].source = HubSource)
    => emitted[i].sequence < emitted[j].sequence


\* C28 (as claimed): on every state delta on P with owner O, every registered
\* target that holds a subscription admitting state and matching P, and whose
\* namespace is not O, is handed the state message of the delta, whatever the
\* handlers of the other targets do (return, throw, or reject); the write
\* itself is applied.
C28_FailingHandlerDeniesNoOne ==
  [][\A p \in Paths, v \in Values :
       (SetDirect(p, v, "companion") /\ globalVersion' = globalVersion + 1)
       => /\ get(entries', p).value = v
          /\ \A i \in 1..Len(targets) : \A k \in 1..Len(subs) :
               (/\ subs[k].clientId = targets[i].id
                /\ SubscriptionMatches(subs[k], p, "state")
                /\ targets[i].namespace # "companion")
               => \E j \in (Len(inbox[targets[i].id]) + 1)..Len(inbox'[targets[i].id]) :
                    LET m == inbox'[targets[i].id][j]
                    IN /\ m.type = "state"
                       /\ m.path = p
                       /\ m.version = get(entries', p).version]_vars

\* C29 (as claimed): when the router processes the terminal ack of a
\* dispatched command that carried idempotency key K, the cache record of K
\* holds that ack as its result afterwards; and a record that holds a
\* terminal ack keeps it, whatever returns later, until cleanupExpired
\* sweeps the record.
C29_TerminalAckCached ==
  /\ [][\A id \in 1..Len(cmdCalls), status \in AckStatuses :
          (HandleAck(id, status) /\ cmdCalls[id].message.idempotencyKey # None)
          => idempotencyCache'[cmdCalls[id].message.idempotencyKey].result
               = TerminalAck(cmdCalls[id].message, cmdCalls[id].target.namespace, status)]_vars
  /\ [][\A k \in IdempotencyKeys :
          (idempotencyCache[k].result # NullResult /\ ~CleanupExpired)
          => idempotencyCache'[k].result = idempotencyCache[k].result]_vars

\* C30 (as claimed): with autoReconnect on, the connection timeout that fires
\* while CONNECTING closes the socket and leaves a reconnect scheduled; and
\* the close event of that timed-out socket (still this.ws, closing), coming
\* before the reconnect timer fires, leaves the timer armed and the adapter
\* out of DISCONNECTED.
C30_TimeoutReconnectStaysArmed ==
  /\ [][(/\ ConnectionTimeout
          /\ connectionState = "connecting"
          /\ autoReconnect /\ maxReconnectAttempts = 0)
         => /\ reconnectTimer'
            /\ connectionState' \in {"error", "reconnecting"}
            /\ (ws # 0 => socks'[ws] \in {"closing", "closed"})]_vars
  /\ [][\A failed \in BOOLEAN :
          (/\ ws # 0 /\ socks[ws] = "closing"
           /\ reconnectTimer /\ autoReconnect
           /\ SocketClose(ws, failed))
          => (reconnectTimer' /\ connectionState' # "disconnected")]_vars

\* the edges of the documented state machine of the adapter
DocumentedEdges ==
  {<<"disconnected", "connecting">>, <<"connecting", "connected">>,
   <<"connected", "disconnected">>, <<"connecting", "error">>,
   <<"error", "reconnecting">>, <<"disconnected", "reconnecting">>,
   <<"reconnecting", "connecting">>, <<"reconnecting", "error">>}

\* C31 (as claimed): every change of connectionState made by a handler of
\* the adapter follows an edge of the documented state machine (so CONNECTED
\* is entered from CONNECTING only).
C31_DocumentedEdgesOnly ==
  \A k \in 1..Len(stateTrail) :
    stateTrail[k][1] # stateTrail[k][2] => stateTrail[k] \in DocumentedEdges

\* the actions whose handler sends a frame upstream, and the frame's command
SendingActions == {"press", "release", "rotate", "setVariable", "clearKeys"}

FrameCommand(action) ==
  CASE action \in {"press", "release"} -> "KEY-PRESS"
    [] action = "rotate" -> "KEY-ROTATE"
    [] action = "setVariable" -> "VARIABLE-VALUE"
    [] action = "clearKeys" -> "KEYS-CLEAR"

\* C32 (as claimed): when the handler of a press, release, rotate,
\* setVariable or clearKeys command has produced an ack of status completed,
\* it has written the command's frame to the open upstream socket.
C32_CompletedOnlyIfSent ==
  \A k \in 1..Len(handled.acks) :
    (handled.command.action \in SendingActions /\ handled.acks[k].status = "completed")
    => \E f \in 1..Len(wire) :
         /\ wire[f].command = FrameCommand(handled.command.action)
         /\ socks[wire[f].sock] = "open"

\* C33 (as claimed): a rotate command with the ROTATION capability detected
\* and both keyIndex k (0 included) and direction d defined sends
\* KEY-ROTATE deviceId k -1|1 and is acked completed; it is acked failed with
\* INVALID_MESSAGE only when keyIndex or direction is absent; without the
\* capability no frame is sent and the ack is failed with ADAPTER_ERROR.
C33_RotateHandled ==
  LET command == handled.command
      params == command.params
  IN (command.action = "rotate" /\ handled.attached) =>
       /\ Len(handled.acks) = 1
       /\ (/\ capabilities.supportsRotation
           /\ Defined(params, "keyIndex") /\ ~IsNull(params, "keyIndex")
           /\ Defined(params, "direction"))
          => /\ handled.acks[1].status = "completed"
             /\ (ws # 0 /\ socks[ws] = "open") =>
                  \E f \in 1..Len(wire) :
                    wire[f].message =
                      JoinWords(<<"KEY-ROTATE", DeviceId, ToString(params.keyIndex),
                                  IF params.direction = "left" THEN "-1" ELSE "1">>)
       /\ (handled.acks[1].status = "failed" /\ handled.acks[1].code = "INVALID_MESSAGE")
          => \/ ~Defined(params, "keyIndex") \/ IsNull(params, "keyIndex")
             \/ ~Defined(params, "direction")
       /\ ~capabilities.supportsRotation
          => /\ wire = <<>>
             /\ handled.acks[1].status = "failed"
             /\ handled.acks[1].code = "ADAPTER_ERROR"

\* C40 (as claimed): a command the adapter's handler is called with while the adapter is
\* attached to a router gets exactly one ack, of status completed or failed,
\* routed with the command's source as its target and the command's id as
\* its commandId, whatever the action and the parameters.
C40_OneTerminalAck ==
  (handled.attached /\ handled.command.action # None) =>
    /\ Len(handled.acks) = 1
    /\ handled.acks[1].status \in {"completed", "failed"}
    /\ handled.acks[1].target = handled.command.source
    /\ handled.acks[1].commandId = handled.command.id
    /\ ackLog # <<>>
    /\ ackLog[Len(ackLog)] = handled.acks[1]

\* C34 (as claimed): every call on the store raises the global version by
\* exactly the number of deltas it emitted (the deltas of the writes its
\* listeners made during the call included); a call that emitted none leaves
\* the global version as it was.
C34_VersionCountsDeltas ==
  lastCall.op # "none" =>
    globalVersion = lastCall.before.globalVersion + lastCall.writes

\* C39 (as claimed): when a listener is called with a delta, the store
\* already reflects it: it holds the delta's entry at the delta's path for a
\* write or a staleness flip, and no entry at that path for a deletion.
C39_StoreReflectsDelta ==
  \A k \in 1..Len(deliveries) :
    LET d == deliveries[k].delta
    IN IF d.removed
       THEN deliveries[k].found = <<>>
       ELSE deliveries[k].found = <<d.entry>>

\* C35 (as claimed): the transport never holds more sessions than
\* maxClients, and a connection that comes in when maxClients sessions are
\* held is closed with 1013 and gets no session and no target.
C35_SessionsWithinMaxClients ==
  /\ [](Cardinality(sessions) <= maxClients)
  /\ [][\A w \in Sockets :
          (HandleConnection(w) /\ Cardinality(sessions) >= maxClients)
          => /\ conns'[w] = [state |-> "closed", code |-> 1013]
             /\ UNCHANGED <<sessions, wsToSession, targets>>]_vars

\* C36 (as claimed): every session in the session table has its target
\* registered under its namespace and a socket whose close handler removes
\* it; a handshake whose registerTarget throws leaves no session and no
\* socket mapping behind.
C36_NoSessionWithoutTarget ==
  /\ \A x \in sessions :
       /\ targetsGet(targets, x.namespace).id = x.id
       /\ \E w \in Sockets : wsToSession[w] = x.id /\ conns[w].state = "active"
  /\ \A w \in Sockets : conns[w].state = "closed" => wsToSession[w] = None

\* the transitions into DISCONNECTED of the last step of the adapter, and the
\* events of type disconnected its handlers were called with
IntoDisconnected ==
  SelectSeq(stateTrail, LAMBDA e : e[2] = "disconnected" /\ e[1] # "disconnected")

DisconnectedEvents == SelectSeq(adapterEvents, LAMBDA type : type = "disconnected")

\* C37 (as claimed): a step of the adapter delivers one event of type
\* disconnected for each transition into DISCONNECTED it made (a socket
\* close while CONNECTED, or disconnect()), and none otherwise.
C37_OneDisconnectedEvent == Len(DisconnectedEvents) = Len(IntoDisconnected)

\* C38 (as claimed): from disconnect() until the next connect() (the adapter
\* holds no router) the adapter is DISCONNECTED, none of its three timers is
\* armed and its two targets are unregistered.
C38_StaysDisconnected ==
  ~router =>
    /\ connectionState = "disconnected"
    /\ ~heartbeatTimer /\ ~reconnectTimer /\ ~connectionTimeoutTimer
    /\ \A t \in AdapterTargets : targetsGet(targets, t.namespace) = NoTarget
====
